---- MODULE Spec2Model ----
(***************************************************************************)
(* Model of the invoice / purchase-order validation service:               *)
(*   - the record store (table registros_webhook, models/registro.py),     *)
(*   - the multipart ingestion endpoint (services/webhook/handler.py),     *)
(*   - the validation engine (services/validator/validator.py) with the    *)
(*     extraction / comparison collaborators (services/openai/client.py).  *)
(*                                                                         *)
(* Representation                                                          *)
(*   - A text whose characters matter (form field, verdicts, messages) is  *)
(*     a tuple of one-character strings; NoneTxt is Python None for it.    *)
(*   - Python None / SQL NULL of a short string column is the string None; *)
(*     of a timestamp column it is NULL_TS; of the JSON list column it is  *)
(*     <<>> (the handler never stores an empty list, handler.py:202).      *)
(*   - A scalar JSON value is [t, s, n]: t its type, s its text, n its     *)
(*     number (amounts in hundredths) or, for a container, its size.       *)
(***************************************************************************)
EXTENDS Integers, Sequences, FiniteSets, TLC

\* ------------------------------------------------------------------ bounds
\* Number of rows the table may hold.
MaxRecords == 2
\* The clock read by datetime.utcnow() runs from 1 to MaxTime.
MaxTime == 2

\* ------------------------------------------------------------ Python values
None == "None"
NoneTxt == <<"None">>
NULL_TS == 0

VNone == [t |-> "None", s |-> <<>>, n |-> 0]
VAusente == [t |-> "ausente", s |-> <<>>, n |-> 0]
VStr(x) == [t |-> "str", s |-> x, n |-> 0]
VNum(x) == [t |-> "num", s |-> <<>>, n |-> x]
VDict(size) == [t |-> "dict", s |-> <<>>, n |-> size]
VList(size) == [t |-> "list", s |-> <<>>, n |-> size]

\* Faulty variant: "is not None" in the place of bool(v).
Truthy_no_nulo(v) == v.t \notin {"None", "ausente"}

\* bool(v): None, "", 0, {} and [] are false (a key that is not there reads
\* as None through dict.get).
Truthy(v) ==
    CASE v.t \in {"None", "ausente"} -> FALSE
      [] v.t = "str" -> v.s # <<>>
      [] OTHER -> v.n # 0

\* a or b
PyOr(a, b) == IF Truthy(a) THEN a ELSE b

\* ------------------------------------------------------------------- texts
Lower == <<"a","b","c","d","e","f","g","h","i","j","k","l","m","n","o","p","q","r","s","t","u","v","w","x","y","z">>
Upper == <<"A","B","C","D","E","F","G","H","I","J","K","L","M","N","O","P","Q","R","S","T","U","V","W","X","Y","Z">>

\* str.upper() on one character.
UpperChar(c) ==
    IF \E i \in 1..26 : Lower[i] = c
    THEN Upper[CHOOSE i \in 1..26 : Lower[i] = c]
    ELSE IF c = "ó" THEN "Ó" ELSE c

\* str.upper()
upper(txt) == [i \in 1..Len(txt) |-> UpperChar(txt[i])]

IsSpace(c) == c \in {" ", "\n", "\t", "\r"}

\* str.lstrip() / str.rstrip() / str.strip()
RECURSIVE lstrip(_)
lstrip(txt) ==
    IF txt # <<>> /\ IsSpace(Head(txt)) THEN lstrip(Tail(txt)) ELSE txt
RECURSIVE rstrip(_)
rstrip(txt) ==
    IF txt # <<>> /\ IsSpace(txt[Len(txt)])
    THEN rstrip(SubSeq(txt, 1, Len(txt) - 1)) ELSE txt
strip(txt) == rstrip(lstrip(txt))

\* needle in txt
Contains(txt, needle) ==
    \E i \in 1..(Len(txt) - Len(needle) + 1) :
        SubSeq(txt, i, i + Len(needle) - 1) = needle

TOK_OK == <<"O","K">>
TOK_DISCREPANCIA == <<"D","I","S","C","R","E","P","A","N","C","I","A">>

\* bool(txt) of an optional text
TruthyTxt(txt) == txt # NoneTxt /\ txt # <<>>

\* --------------------------------------------------------- validation engine
\* class TipoAnomalia
SIN_OC == "sin_oc"
SIN_FACTURA == "sin_factura"
SIN_OC_NI_FACTURA == "sin_oc_ni_factura"
ERROR_PROCESAMIENTO == "error_procesamiento_factura"
DISCREPANCIAS == "discrepancias_encontradas"

MSG_SIN_OC == <<"N","o"," ","s","e"," ","p","u","d","o"," ","c","o","m","p","a","r","a","r",":"," ","F","a","l","t","a"," ","O","r","d","e","n"," ","d","e"," ","C","o","m","p","r","a",".">>
MSG_FALLO_EXTRACCION == <<"F","a","l","l","ó"," ","l","a"," ","e","x","t","r","a","c","c","i","ó","n"," ","d","e"," ","d","a","t","o","s"," ","d","e","l"," ","P","D","F",".">>
PREFIJO_ERROR == <<"E","r","r","o","r",":"," ">>
PREFIJO_ERROR_COMPARACION == <<"E","r","r","o","r"," ","e","n"," ","c","o","m","p","a","r","a","c","i","ó","n",":"," ">>

\* RegistroWebhook.num_ordenes
num_ordenes(registro) == Len(registro.ordenes_de_compra)

\* OpenAIService.extraer_datos_factura: every failure inside it (invalid
\* base64, upload error, run not completed, timeout, non-JSON answer) is
\* caught and gives None; otherwise the parsed JSON answer is returned,
\* whatever its type (JSON null parses to None).
\* Faulty variant: the answer of the service is dropped.
extraer_datos_factura_perdido(factura_base64, respuesta) == VNone

extraer_datos_factura(factura_base64, respuesta) ==
    IF factura_base64 = None \/ respuesta.falla THEN VNone ELSE respuesta.valor

\* OpenAIService.comparar_factura_oc: the stripped answer, or the error text
\* built from the exception.
comparar_factura_oc(respuesta) ==
    IF respuesta.falla THEN PREFIJO_ERROR_COMPARACION \o respuesta.texto
    ELSE strip(respuesta.texto)

\* Faulty variant: only the OK token is looked for.
ComparacionSoloOK(comparacion) ==
    Contains(upper(strip(comparacion)), TOK_OK)

\* The verdict test of _validar_registro_individual (validator.py:169-170).
ComparacionSinDiscrepancia(comparacion) ==
    LET comparacion_upper == upper(strip(comparacion))
    IN  Contains(comparacion_upper, TOK_OK)
        /\ ~Contains(comparacion_upper, TOK_DISCREPANCIA)

\* ValidadorRegistros._validar_registro_individual. ext is the answer of the
\* extraction service and cmp the answer of the comparison service, each
\* used only if the code reaches the call.
_validar_registro_individual(registro, ext, cmp) ==
    LET resultado0 == [registro_id |-> registro.id,
                       fecha_recepcion |-> registro.fecha_recepcion,
                       tiene_oc |-> registro.tiene_oc,
                       tiene_factura |-> registro.tiene_factura,
                       es_anomalia |-> FALSE,
                       tipo_anomalia |-> None,
                       resultado_openai |-> NoneTxt,
                       datos_factura |-> VNone,
                       num_ordenes |-> num_ordenes(registro),
                       factura_base64_raw |-> registro.factura_base64]
        devuelto == extraer_datos_factura(registro.factura_base64, ext)
        \* resultado['datos_factura'] keeps whatever was returned; the local
        \* datos_factura becomes None when .get raises on a non-dict value.
        resultado1 == [resultado0 EXCEPT !.datos_factura = devuelto]
        datos_factura == IF Truthy(devuelto) /\ devuelto.t # "dict"
                         THEN VNone ELSE devuelto
    IN  IF ~registro.tiene_factura
        THEN IF ~registro.tiene_oc
             THEN [resultado0 EXCEPT !.es_anomalia = TRUE,
                                     !.tipo_anomalia = SIN_OC_NI_FACTURA]
             ELSE [resultado0 EXCEPT !.es_anomalia = TRUE,
                                     !.tipo_anomalia = SIN_FACTURA]
        ELSE IF ~registro.tiene_oc
        THEN [resultado1 EXCEPT !.es_anomalia = TRUE,
                                !.tipo_anomalia = SIN_OC,
                                !.resultado_openai = MSG_SIN_OC]
        ELSE IF Truthy(datos_factura)
        THEN LET comparacion == comparar_factura_oc(cmp)
             IN  IF ComparacionSinDiscrepancia(comparacion)
                 THEN [resultado1 EXCEPT !.resultado_openai = comparacion,
                                         !.es_anomalia = FALSE]
                 ELSE [resultado1 EXCEPT !.resultado_openai = comparacion,
                                         !.es_anomalia = TRUE,
                                         !.tipo_anomalia = DISCREPANCIAS]
        ELSE [resultado1 EXCEPT !.es_anomalia = TRUE,
                                !.tipo_anomalia = ERROR_PROCESAMIENTO,
                                !.resultado_openai =
                                    IF ~TruthyTxt(resultado1.resultado_openai)
                                    THEN MSG_FALLO_EXTRACCION
                                    ELSE resultado1.resultado_openai]

\* The collaborator calls one validation makes.
\* Faulty variant: the extraction is called for every row.
LlamaExtraccion_siempre(registro) == TRUE

LlamaExtraccion(registro) == registro.tiene_factura
LlamaComparacion(registro, ext) ==
    /\ registro.tiene_factura
    /\ registro.tiene_oc
    /\ LET devuelto == extraer_datos_factura(registro.factura_base64, ext)
       IN  Truthy(devuelto) /\ devuelto.t = "dict"

\* --------------------------------------------------------- field normalizer
\* The declared fields of OrdenCompraInput, all None by default.
CamposVacios ==
    [VendorName |-> VNone, vendor_name |-> VNone, proveedor |-> VNone,
     our_company |-> VNone, empresa |-> VNone, receptor |-> VNone,
     total |-> VNone, monto |-> VNone, amount |-> VNone,
     moneda |-> VNone, currency |-> VNone,
     id |-> VNone, oc_id |-> VNone, order_id |-> VNone,
     oc_attached_data |-> VNone, datos_adicionales |-> VNone,
     oc_subject |-> VAusente, oc_poDate |-> VAusente,
     adquired_services |-> VAusente, adquired_serviecs |-> VAusente,
     authorized_by |-> VAusente]

\* An element of the parsed purchase-order value: a JSON object with its
\* fields (the keys of a nested attached-data object are kept flat in
\* oc_subject .. authorized_by), or any other JSON value.
ItemDict(campos) == [t |-> "dict", campos |-> campos]
ItemOtro(tipo) == [t |-> tipo, campos |-> CamposVacios]

Digits == <<"0","1","2","3","4","5","6","7","8","9">>
IsDigit(c) == \E i \in 1..10 : Digits[i] = c
DigitVal(c) == (CHOOSE i \in 1..10 : Digits[i] = c) - 1

RECURSIVE NatOf(_)
NatOf(ds) == IF ds = <<>> THEN 0
             ELSE 10 * NatOf(SubSeq(ds, 1, Len(ds) - 1)) + DigitVal(ds[Len(ds)])

\* Faulty variant: nothing is removed.
Quitar_nada(txt, c) == txt

\* txt.replace(c, '') for a one-character c
RECURSIVE Quitar(_, _)
Quitar(txt, c) ==
    IF txt = <<>> THEN <<>>
    ELSE IF Head(txt) = c THEN Quitar(Tail(txt), c)
    ELSE <<Head(txt)>> \o Quitar(Tail(txt), c)

\* float(txt) for plain decimal texts with at most two decimals, in
\* hundredths; ok is FALSE where float() raises ValueError.
float(txt) ==
    LET t == strip(txt)
        dots == {i \in 1..Len(t) : t[i] = "."}
        p == IF dots = {} THEN Len(t) + 1 ELSE CHOOSE i \in dots : TRUE
        ent == SubSeq(t, 1, p - 1)
        dec == SubSeq(t, p + 1, Len(t))
        bien == /\ Cardinality(dots) <= 1
                /\ Len(ent) + Len(dec) > 0
                /\ Len(dec) <= 2
                /\ \A i \in 1..Len(ent) : IsDigit(ent[i])
                /\ \A i \in 1..Len(dec) : IsDigit(dec[i])
    IN  IF bien
        THEN [ok |-> TRUE,
              n |-> 100 * NatOf(ent)
                    + (IF Len(dec) = 1 THEN 10 * NatOf(dec) ELSE NatOf(dec))]
        ELSE [ok |-> FALSE, n |-> 0]

\* Lines 51-57 of to_normalized_dict.
Monto(c) ==
    LET raw_monto == PyOr(c.monto, PyOr(c.total, PyOr(c.amount, VNum(0))))
    IN  IF raw_monto.t = "str"
        THEN LET f == float(strip(Quitar(Quitar(raw_monto.s, ","), "$")))
             IN  IF f.ok THEN f.n ELSE 0
        ELSE raw_monto.n

\* OrdenCompraInput.to_normalized_dict
to_normalized_dict(c) ==
    LET prov == PyOr(c.proveedor, PyOr(c.VendorName, PyOr(c.vendor_name, VStr(<<"N","/","A">>))))
        emp == PyOr(c.empresa, PyOr(c.our_company, PyOr(c.receptor, VStr(<<"N","/","A">>))))
        mon == upper(PyOr(c.moneda, PyOr(c.currency, VStr(<<"M","X","N">>))).s)
        oid == PyOr(c.id, PyOr(c.oc_id, PyOr(c.order_id, VStr(<<"N","/","A">>))))
        normalized == [id |-> oid.s, proveedor |-> prov.s, empresa |-> emp.s,
                       monto |-> Monto(c), moneda |-> mon]
        adj == PyOr(c.oc_attached_data, c.datos_adicionales)
        servicios == PyOr(c.adquired_services, c.adquired_serviecs)
        extras == IF adj.t # "dict" THEN {}
                  ELSE {"datos_adjuntos"}
                       \cup (IF c.oc_subject.t # "ausente" THEN {"concepto"} ELSE {})
                       \cup (IF c.oc_poDate.t # "ausente" THEN {"fecha_orden"} ELSE {})
                       \cup (IF Truthy(servicios) THEN {"servicios"} ELSE {})
    IN  [k \in DOMAIN normalized \cup extras |->
            CASE k = "datos_adjuntos" -> adj
              [] k = "concepto" -> c.oc_subject
              [] k = "fecha_orden" -> c.oc_poDate
              [] k = "servicios" -> servicios
              [] OTHER -> normalized[k]]

\* OrdenCompraInput(**item): pydantic rejects a value of the wrong shape
\* (a container where text is declared, text where a mapping is declared).
Valida(c) ==
    /\ \A k \in {"VendorName", "vendor_name", "proveedor", "our_company",
                 "empresa", "receptor", "moneda", "currency", "id", "oc_id",
                 "order_id"} : c[k].t \in {"None", "str"}
    /\ \A k \in {"total", "monto", "amount"} : c[k].t \in {"None", "str", "num"}
    /\ \A k \in {"oc_attached_data", "datos_adicionales"} :
          c[k].t \in {"None", "dict"}

\* ----------------------------------------------------------- flexible parser
\* txt.replace('\\"', '"')
RECURSIVE QuitarEscapes(_)
QuitarEscapes(txt) ==
    IF Len(txt) < 2 THEN txt
    ELSE IF txt[1] = "\\" /\ txt[2] = "\""
    THEN <<"\"">> \o QuitarEscapes(SubSeq(txt, 3, Len(txt)))
    ELSE <<txt[1]>> \o QuitarEscapes(Tail(txt))

\* WebhookHandler._clean_json_string
RECURSIVE _clean_json_string(_)
_clean_json_string(json_str) ==
    IF json_str = <<>> THEN <<>>
    ELSE LET c == Head(json_str)
             resto == _clean_json_string(Tail(json_str))
         IN  IF c \in {"\n", "\t"} THEN <<" ">> \o resto
             ELSE IF c \in {"\r", "\f"} THEN resto
             ELSE <<c>> \o resto

\* The form fields sent in the model, as texts.
F_LISTA == <<"[","{","\"","i","d","\"",":","\"","A","\"",",","\"","m","o","n","t","o","\"",":","\"","$","1",",","2","0","0",".","5","0","\"","}","]">>
F_ESCAPADA == <<"[","{","\\","\"","i","d","\\","\"",":","\\","\"","A","\\","\"","}","]">>
F_CONTROL == <<"[","{","\"","i","d","\"",":","\"","A","\n","\"","}","]">>
F_BASURA == <<"x">>
F_NULL == <<"n","u","l","l">>
F_VACIA == <<"[","]">>
F_NUM == <<"5">>
F_NODICT == <<"[","1","]">>
F_DICT == <<"{","\"","i","d","\"",":","\"","B","\"",",","\"","t","o","t","a","l","\"",":","1","5","}">>
F_MIXTA == <<"[","{","\"","i","d","\"",":","\"","A","\"","}",",","1","]">>
F_ESPACIOS == <<" ">>

F_TEXTO == <<"\"","a","b","\"">>
F_INVALIDA == <<"[","{","\"","i","d","\"",":","[","\"","A","\"","]","}","]">>
F_MONEDA == <<"[","{","\"","i","d","\"",":","\"","A","\"",",","\"","m","o","n","e","d","a","\"",":","\"","u","s","d","\"","}","]">>
F_SIN_COMILLAS == <<"{","n","a","m","e",":"," ","\"","x","\"",","," ","t","o","t","a","l",":"," ","5","}">>
F_CON_COMILLAS == <<"{","\"","n","a","m","e","\"",":"," ","\"","x","\"",","," ","\"","t","o","t","a","l","\"",":"," ","5","}">>
F_CLAVE_EN_TEXTO == <<"{","n","a","m","e",":"," ","\"","a"," ","b",":"," ","c","\"","}">>
F_CLAVE_EN_TEXTO_CITADA == <<"{","\"","n","a","m","e","\"",":"," ","\"","a"," ","b",":"," ","c","\"","}">>
F_COMA == <<"[","{","\"","i","d","\"",":","\"","A","\"","}",",","]">>

\* A parsed JSON value: t its type, n its number (or its number of keys or
\* characters), items what iterating over it yields.
JNone == [t |-> "None", n |-> 0, items |-> <<>>]
JList(items) == [t |-> "list", n |-> Len(items), items |-> items]
JDict(campos, claves) == [t |-> "dict", n |-> claves, items |-> <<ItemDict(campos)>>]
JNum(x) == [t |-> "num", n |-> x, items |-> <<>>]

OC_A == [CamposVacios EXCEPT !.id = VStr(<<"A">>)]

\* A JSON object with the key name, which OrdenCompraInput does not
\* declare (extra = 'allow' keeps it).
ConNombre(campos, nombre) == ("name" :> VStr(nombre)) @@ campos

\* json.loads on the texts that reach it in the model: the parsed value, or
\* ok = FALSE where it raises JSONDecodeError (every text that is not
\* listed is not JSON).
json_loads(t) ==
        CASE t = F_LISTA ->
               [ok |-> TRUE, valor |-> JList(<<ItemDict(
                   [OC_A EXCEPT !.monto = VStr(<<"$","1",",","2","0","0",".","5","0">>)])>>)]
          [] t = <<"[","{","\"","i","d","\"",":","\"","A","\"","}","]">> ->
               [ok |-> TRUE, valor |-> JList(<<ItemDict(OC_A)>>)]
          [] t = <<"[","{","\"","i","d","\"",":","\"","A"," ","\"","}","]">> ->
               [ok |-> TRUE, valor |-> JList(<<ItemDict(
                   [CamposVacios EXCEPT !.id = VStr(<<"A"," ">>)])>>)]
          [] t = F_NULL -> [ok |-> TRUE, valor |-> JNone]
          [] t = F_VACIA -> [ok |-> TRUE, valor |-> JList(<<>>)]
          [] t = F_NUM -> [ok |-> TRUE, valor |-> JNum(5)]
          [] t = F_NODICT -> [ok |-> TRUE, valor |-> JList(<<ItemOtro("num")>>)]
          [] t = F_DICT ->
               [ok |-> TRUE, valor |-> JDict(
                   [CamposVacios EXCEPT !.id = VStr(<<"B">>),
                                        !.total = VNum(1500)], 2)]
          [] t = F_MIXTA ->
               [ok |-> TRUE, valor |-> JList(<<ItemDict(OC_A), ItemOtro("num")>>)]
          [] t = F_TEXTO -> [ok |-> TRUE, valor |->
               [t |-> "str", n |-> 2,
                items |-> <<ItemOtro("str"), ItemOtro("str")>>]]
          [] t = F_INVALIDA ->
               [ok |-> TRUE, valor |-> JList(<<ItemDict(
                   [CamposVacios EXCEPT !.id = VList(1)])>>)]
          [] t = F_MONEDA ->
               [ok |-> TRUE, valor |-> JList(<<ItemDict(
                   [OC_A EXCEPT !.moneda = VStr(<<"u","s","d">>)])>>)]
          [] t = F_CON_COMILLAS ->
               [ok |-> TRUE, valor |-> JDict(
                   ConNombre([CamposVacios EXCEPT !.total = VNum(500)],
                             <<"x">>), 2)]
          [] t = F_CLAVE_EN_TEXTO_CITADA ->
               [ok |-> TRUE, valor |-> JDict(
                   ConNombre(CamposVacios, <<"a"," ","b",":"," ","c">>), 1)]
          [] t = <<"{","\"","i","d","\"",":"," ","\"","A","\"","}">> ->
               [ok |-> TRUE, valor |-> JDict(OC_A, 1)]
          [] OTHER -> [ok |-> FALSE, valor |-> JNone]

\* \w of the pattern, for the ASCII texts of the model.
EsPalabra(c) ==
    IsDigit(c) \/ c = "_" \/ \E i \in 1..26 : Lower[i] = c \/ Upper[i] = c

\* The first position after the run of \w characters that starts at i.
RECURSIVE FinPalabra(_, _)
FinPalabra(txt, i) ==
    IF i <= Len(txt) /\ EsPalabra(txt[i]) THEN FinPalabra(txt, i + 1) ELSE i

\* The first position after the run of \s characters that starts at i.
RECURSIVE FinEspacios(_, _)
FinEspacios(txt, i) ==
    IF i <= Len(txt) /\ IsSpace(txt[i]) THEN FinEspacios(txt, i + 1) ELSE i

\* The pattern (?<!")(\b[a-zA-Z_][a-zA-Z0-9_]*\b)(?!")\s*: matches at i with
\* the identifier ending before j and the colon at k: the character before
\* i is neither a double quote nor a \w character, the identifier starts
\* with a letter or underscore and runs to the end of its \w run, the
\* character after it is no double quote, and a colon follows optional
\* white space. Whether i lies inside a quoted string is not looked at.
CoincideClave(txt, i, j, k) ==
    /\ EsPalabra(txt[i]) /\ ~IsDigit(txt[i])
    /\ i = 1 \/ (txt[i - 1] # "\"" /\ ~EsPalabra(txt[i - 1]))
    /\ j > Len(txt) \/ txt[j] # "\""
    /\ k <= Len(txt) /\ txt[k] = ":"

\* re.sub(pattern, add_quotes, fixed) from position i on: each match is
\* replaced by the identifier in double quotes and a colon.
RECURSIVE add_quotes(_, _)
add_quotes(txt, i) ==
    IF i > Len(txt) THEN <<>>
    ELSE IF CoincideClave(txt, i, FinPalabra(txt, i),
                          FinEspacios(txt, FinPalabra(txt, i)))
    THEN <<"\"">> \o SubSeq(txt, i, FinPalabra(txt, i) - 1) \o <<"\"", ":">>
         \o add_quotes(txt, FinEspacios(txt, FinPalabra(txt, i)) + 1)
    ELSE <<txt[i]>> \o add_quotes(txt, i + 1)

\* str.replace(viejo, nuevo) for a non-empty viejo
RECURSIVE Reemplazar(_, _, _)
Reemplazar(txt, viejo, nuevo) ==
    IF Len(txt) < Len(viejo) THEN txt
    ELSE IF SubSeq(txt, 1, Len(viejo)) = viejo
    THEN nuevo \o Reemplazar(SubSeq(txt, Len(viejo) + 1, Len(txt)),
                             viejo, nuevo)
    ELSE <<Head(txt)>> \o Reemplazar(Tail(txt), viejo, nuevo)

\* fix_malformed_json: a text that is JSON is returned as it is; otherwise
\* the bare keys are quoted and every single quote becomes a double quote.
fix_malformed_json(json_string) ==
    IF json_loads(json_string).ok THEN json_string
    ELSE Reemplazar(add_quotes(json_string, 1), <<"'">>, <<"\"">>)

\* ast.literal_eval on the texts that reach it in the model (every text
\* that is not listed is no Python literal).
literal_eval(t) ==
        CASE t = F_COMA ->
               [ok |-> TRUE, valor |-> JList(<<ItemDict(OC_A)>>)]
          [] t = <<"[","{","\"","i","d","\"",":","N","o","n","e","}",",","]">> ->
               [ok |-> TRUE, valor |-> JList(<<ItemDict(CamposVacios)>>)]
          [] OTHER -> [ok |-> FALSE, valor |-> JNone]

\* parse_flexible_json after its strip(): the direct parse, then the parse
\* of the repaired text, then ast.literal_eval of the text with true,
\* false and null replaced (line 111); ok = FALSE where it raises
\* ValueError.
Parseado(t) ==
    IF json_loads(t).ok THEN json_loads(t)
    ELSE IF json_loads(fix_malformed_json(t)).ok
    THEN json_loads(fix_malformed_json(t))
    ELSE literal_eval(
             Reemplazar(Reemplazar(Reemplazar(t,
                 <<"t","r","u","e">>, <<"T","r","u","e">>),
                 <<"f","a","l","s","e">>, <<"F","a","l","s","e">>),
                 <<"n","u","l","l">>, <<"N","o","n","e">>))

parse_flexible_json(json_string) == Parseado(strip(json_string))

\* base64.b64encode(file_content).decode('utf-8') for the files sent in the
\* model.
b64encode(file_content) ==
    CASE file_content = "%PDF" -> "JVBERg=="
      [] file_content = "" -> ""

\* bool(raw_list) of a parsed value
TruthyJ(v) == v.t # "None" /\ v.n # 0

\* One parse phase (lines 126-157): the parsed value, None where the
\* parser raised.
Fase(intento) == IF intento.ok THEN intento.valor ELSE JNone

\* "if raw_list is None:" guarding the next phase.
SiNone(raw, siguiente) == IF raw = JNone THEN siguiente ELSE raw

\* Lines 126-157: the three parse phases in order.
raw_list(ordenes_de_compra) ==
    SiNone(SiNone(Fase(parse_flexible_json(ordenes_de_compra)),
                  Fase(parse_flexible_json(QuitarEscapes(ordenes_de_compra)))),
           Fase(parse_flexible_json(
                    QuitarEscapes(_clean_json_string(ordenes_de_compra)))))

\* Lines 126-157: how many of the three phases were attempted. Phase 1
\* always is; phase 2 and phase 3 are guarded by "if raw_list is None:",
\* which is the case after a phase that raised and after one that returned
\* None.
fases_intentadas(ordenes_de_compra) ==
    IF Fase(parse_flexible_json(ordenes_de_compra)) # JNone THEN 1
    ELSE IF Fase(parse_flexible_json(QuitarEscapes(ordenes_de_compra))) # JNone
    THEN 2
    ELSE 3

\* Faulty variant: every item is kept as it came.
ocs_finales_crudas(items) == items

\* Lines 165-172: a mapping goes through OrdenCompraInput and is replaced
\* by its normalized form; anything else, or a mapping the model class
\* rejects, is kept as it came.
ocs_finales(items) ==
    [i \in 1..Len(items) |->
        IF items[i].t = "dict" /\ Valida(items[i].campos)
        THEN to_normalized_dict(items[i].campos)
        ELSE items[i]]

\* Lines 159-178 for the value the parse phases left. e is str(e) of what
\* lines 165 and 178 raise: iterating a number is a TypeError, .get on an
\* element that is no mapping an AttributeError.
Procesar(raw) ==
    IF ~TruthyJ(raw) THEN [error |-> FALSE, ocs |-> <<>>, e |-> <<>>]
    ELSE IF raw.t \notin {"list", "dict", "str"}
    THEN [error |-> TRUE, ocs |-> <<>>,
          e |-> <<"'","i","n","t","'"," ","o","b","j","e","c","t"," ",
                  "i","s"," ","n","o","t"," ","i","t","e","r","a","b","l","e">>]
    ELSE IF Len(raw.items) > 0 /\ raw.items[1].t # "dict"
    THEN [error |-> TRUE, ocs |-> ocs_finales(raw.items),
          e |-> <<"o","b","j","e","c","t"," ","h","a","s"," ","n","o"," ",
                  "a","t","t","r","i","b","u","t","e"," ","'","g","e","t","'">>]
    ELSE [error |-> FALSE, ocs |-> ocs_finales(raw.items), e |-> <<>>]

\* Lines 124-178 of receive_webhook: the purchase orders read from the form
\* field (NoneTxt when the field was not sent). error is TRUE where the
\* code raises (iterating a number; .get on a first element that is no
\* mapping), which the handler turns into HTTP 500. fases is the number
\* of parse phases attempted (none for an absent or empty field).
ProcesarOCs(ordenes_de_compra) ==
    IF ~TruthyTxt(ordenes_de_compra)
    THEN [error |-> FALSE, ocs |-> <<>>, e |-> <<>>, fases |-> 0]
    ELSE [fases |-> fases_intentadas(ordenes_de_compra)]
             @@ Procesar(raw_list(ordenes_de_compra))

\* ------------------------------------------------------------ record store
VARIABLES
    registros_webhook,  \* the table: row i has id i (autoincrement, no delete)
    pc,                 \* position of the scheduler thread in the batch
    registros,          \* validar_todos_los_registros: detached pending rows
    idx,                \* ... index of the row being processed (1-based)
    resultados,         \* ... outcomes appended so far / returned
    resultado,          \* ... outcome being written
    excepcion,          \* ... text of the exception caught at batch level
    reloj,              \* the clock datetime.utcnow() reads
    pendientes_leidos,  \* history: ids that were pending when the run read
    historia,           \* history: how the previous run ended, inserts since
    llamadas,           \* history: collaborator calls and commits of the run
    consultas,          \* history: what the collaborators answered for the
                        \* row just validated
    respuesta,          \* the last HTTP response of POST /webhook
    peticion,           \* history: what the last request carried
    avisos,             \* ejecutar_validacion: send_advice calls of the run
    reportados,         \* history: for each row id, the number of runs whose
                        \* uploaded report held an outcome of the row
    otro,               \* a second execution of validar_todos_los_registros
    json_string,        \* the text handed to parse_flexible_json
    parseado,           \* ... what it returned
    item,               \* the mapping handed to OrdenCompraInput
    oc_normalizada      \* ... what to_normalized_dict returned

vars == <<registros_webhook, pc, registros, idx, resultados, resultado,
          excepcion, reloj, pendientes_leidos, historia, llamadas, consultas,
          respuesta, peticion, avisos, reportados, otro, json_string,
          parseado, item, oc_normalizada>>
lote == <<pc, registros, idx, resultados, resultado, excepcion,
          pendientes_leidos, llamadas, consultas>>
http == <<respuesta, peticion>>
puro == <<json_string, parseado, item, oc_normalizada>>
\* What the service leaves alone: the history of runs, the functions
\* applied on their own, the notifications sent by the orchestrator.
fijas == <<historia, puro, avisos, reportados, otro>>

Tiempos == 1..MaxTime

\* Faulty variant: every row is flagged as holding an invoice.
RegistroWebhook_con_factura(id, ahora, factura_b64, ocs) ==
    [id |-> id,
     fecha_recepcion |-> ahora,
     ordenes_de_compra |-> IF Len(ocs) > 0 THEN ocs ELSE <<>>,
     factura_base64 |-> factura_b64,
     procesado |-> FALSE,
     tiene_oc |-> IF Len(ocs) > 0 THEN Len(ocs) > 0 ELSE FALSE,
     tiene_factura |-> TRUE,
     resultado_validacion |-> NoneTxt,
     es_anomalia |-> FALSE,
     tipo_anomalia |-> None,
     datos_factura_json |-> VNone,
     fecha_procesamiento |-> NULL_TS]

\* RegistroWebhook(...) as built by _guardar_registro_sync, with the column
\* defaults of the model class.
RegistroWebhook(id, ahora, factura_b64, ocs) ==
    [id |-> id,
     fecha_recepcion |-> ahora,
     ordenes_de_compra |-> IF Len(ocs) > 0 THEN ocs ELSE <<>>,
     factura_base64 |-> factura_b64,
     procesado |-> FALSE,
     tiene_oc |-> IF Len(ocs) > 0 THEN Len(ocs) > 0 ELSE FALSE,
     tiene_factura |-> (factura_b64 # None /\ factura_b64 # ""),
     resultado_validacion |-> NoneTxt,
     es_anomalia |-> FALSE,
     tipo_anomalia |-> None,
     datos_factura_json |-> VNone,
     fecha_procesamiento |-> NULL_TS]

\* Faulty variant: no finally, the session of a failed body stays open.
get_session_sin_cierre(falla) ==
    [abierta |-> falla,
     fin |-> IF falla THEN "rollback" ELSE "commit",
     relanza |-> falla]

\* DatabaseManager.get_session, a context manager: the session after the
\* with block is left. falla: the body, or the commit, raised. The body
\* done, the session is committed; an exception rolls it back and is
\* raised again; finally closes the session either way.
get_session(falla) ==
    [abierta |-> FALSE,
     fin |-> IF falla THEN "rollback" ELSE "commit",
     relanza |-> falla]

\* Faulty variant: the UPDATE does not set tipo_anomalia.
_actualizar_registro_sin_tipo(tabla, registro_id, res, ahora) ==
    [i \in 1..Len(tabla) |->
        IF tabla[i].id = registro_id
        THEN [tabla[i] EXCEPT !.procesado = TRUE,
                              !.es_anomalia = res.es_anomalia,
                              !.resultado_validacion = res.resultado_openai,
                              !.datos_factura_json = res.datos_factura,
                              !.fecha_procesamiento = ahora]
        ELSE tabla[i]]

\* Faulty variant: the UPDATE has no WHERE clause.
_actualizar_registro_sin_filtro(tabla, registro_id, res, ahora) ==
    [i \in 1..Len(tabla) |->
        [tabla[i] EXCEPT !.procesado = TRUE,
                         !.es_anomalia = res.es_anomalia,
                         !.tipo_anomalia = res.tipo_anomalia,
                         !.resultado_validacion = res.resultado_openai,
                         !.datos_factura_json = res.datos_factura,
                         !.fecha_procesamiento = ahora]]

\* Faulty variant: the UPDATE leaves a row that is already processed.
_actualizar_registro_protegido(tabla, registro_id, res, ahora) ==
    [i \in 1..Len(tabla) |->
        IF tabla[i].id = registro_id /\ ~tabla[i].procesado
        THEN [tabla[i] EXCEPT !.procesado = TRUE,
                              !.es_anomalia = res.es_anomalia,
                              !.tipo_anomalia = res.tipo_anomalia,
                              !.resultado_validacion = res.resultado_openai,
                              !.datos_factura_json = res.datos_factura,
                              !.fecha_procesamiento = ahora]
        ELSE tabla[i]]

\* Faulty variant: the outcome is written without the processed flag.
_actualizar_registro_sin_marca(tabla, registro_id, res, ahora) ==
    [i \in 1..Len(tabla) |->
        IF tabla[i].id = registro_id
        THEN [tabla[i] EXCEPT !.es_anomalia = res.es_anomalia,
                              !.tipo_anomalia = res.tipo_anomalia,
                              !.resultado_validacion = res.resultado_openai,
                              !.datos_factura_json = res.datos_factura,
                              !.fecha_procesamiento = ahora]
        ELSE tabla[i]]

\* The UPDATE of _actualizar_registro, committed.
_actualizar_registro(tabla, registro_id, res, ahora) ==
    [i \in 1..Len(tabla) |->
        IF tabla[i].id = registro_id
        THEN [tabla[i] EXCEPT !.procesado = TRUE,
                              !.es_anomalia = res.es_anomalia,
                              !.tipo_anomalia = res.tipo_anomalia,
                              !.resultado_validacion = res.resultado_openai,
                              !.datos_factura_json = res.datos_factura,
                              !.fecha_procesamiento = ahora]
        ELSE tabla[i]]

\* Faulty variant: the processed flag is not looked at.
EsPendienteTodos(fila) == fila.fecha_recepcion # NULL_TS

\* The WHERE clause of _obtener_registros_pendientes.
EsPendiente(fila) == fila.procesado = FALSE /\ fila.fecha_recepcion # NULL_TS

\* Faulty variant: no ORDER BY.
SinOrden(filas) == TRUE

\* The ORDER BY of _obtener_registros_pendientes: ascending fecha_recepcion
\* (rows with equal timestamps come in any order).
EnOrden(filas) ==
    \A i, j \in 1..Len(filas) :
        i < j => filas[i].fecha_recepcion <= filas[j].fecha_recepcion

\* Faulty variant: every row of the table is returned, in id order.
_obtener_todos_los_registros(tabla) == {tabla}

\* Faulty variant: the query returns the oldest pending row only.
_obtener_registros_pendientes_primero(tabla) ==
    LET ids == {i \in 1..Len(tabla) : EsPendiente(tabla[i])}
    IN  IF ids = {} THEN {<<>>}
        ELSE {<<tabla[i]>> : i \in {j \in ids : \A k \in ids :
                 tabla[j].fecha_recepcion <= tabla[k].fecha_recepcion}}

\* _obtener_registros_pendientes: the lists the query may return.
_obtener_registros_pendientes(tabla) ==
    LET ids == {i \in 1..Len(tabla) : EsPendiente(tabla[i])}
        n == Cardinality(ids)
        listas == {[k \in 1..n |-> tabla[f[k]]] :
                      f \in {g \in [1..n -> ids] :
                                \A a, b \in 1..n : a # b => g[a] # g[b]}}
    IN  {filas \in listas : EnOrden(filas)}

\* Faulty variant: the error outcome is not flagged as an anomaly.
resultado_error_sin_anomalia(registro, e) ==
    [registro_id |-> registro.id,
     fecha_recepcion |-> registro.fecha_recepcion,
     tiene_oc |-> registro.tiene_oc,
     tiene_factura |-> registro.tiene_factura,
     es_anomalia |-> FALSE,
     tipo_anomalia |-> None,
     resultado_openai |-> PREFIJO_ERROR \o e,
     datos_factura |-> VNone,
     factura_base64_raw |-> registro.factura_base64]

\* The resultado_error dict of the batch-level except block.
resultado_error(registro, e) ==
    [registro_id |-> registro.id,
     fecha_recepcion |-> registro.fecha_recepcion,
     tiene_oc |-> registro.tiene_oc,
     tiene_factura |-> registro.tiene_factura,
     es_anomalia |-> TRUE,
     tipo_anomalia |-> ERROR_PROCESAMIENTO,
     resultado_openai |-> PREFIJO_ERROR \o e,
     datos_factura |-> VNone,
     factura_base64_raw |-> registro.factura_base64]

\* str(e) of a failed store operation.
EXC_DB == <<"d","a","t","a","b","a","s","e"," ","i","s"," ","l","o","c","k","e","d">>

SinResultado == [registro_id |-> 0]
\* No unit of work of the store yet.
SinSesion == [abierta |-> FALSE, fin |-> "ninguna", relanza |-> FALSE]

\* The calls of a run: to the collaborators, committed writes, the last
\* unit of work of the store (sesion) and the sessions left open.
SinLlamadas ==
    [extraer |-> 0, comparar |-> 0, escrituras |-> 0, abiertas |-> 0,
     sesion |-> SinSesion]

\* The calls of a run after one more unit of work.
ConSesion(ll, s) ==
    [ll EXCEPT !.sesion = s, !.abiertas = @ + (IF s.abierta THEN 1 ELSE 0)]
NoExt == [falla |-> TRUE, valor |-> VAusente]
NoCmp == [falla |-> TRUE, texto |-> NoneTxt]
SinConsultas ==
    [ext |-> NoExt, cmp |-> NoCmp, datos |-> VAusente, ordenes |-> <<>>]

\* The second execution before it starts: its position, the rows it read,
\* its place in them, its last outcome, its collaborator calls.
SinOtro ==
    [pc |-> "idle", registros |-> <<>>, idx |-> 1, resultado |-> SinResultado,
     extraer |-> 0, comparar |-> 0]

\* ------------------------------------------------- validar_todos_los_registros
\* Line 31: read the pending rows in one unit of work; an empty list returns
\* [] at once.
IniciarLote ==
    /\ pc = "idle"
    /\ \E filas \in _obtener_registros_pendientes(registros_webhook) :
          /\ registros' = filas
          /\ pc' = IF filas = <<>> THEN "returned" ELSE "loop"
    /\ idx' = 1
    /\ resultados' = <<>>
    /\ resultado' = SinResultado
    /\ excepcion' = NoneTxt
    /\ pendientes_leidos' =
          {i \in 1..Len(registros_webhook) : ~registros_webhook[i].procesado}
    /\ llamadas' = ConSesion(SinLlamadas, get_session(FALSE))
    /\ consultas' = SinConsultas
    /\ UNCHANGED <<registros_webhook, reloj, http>>

\* Line 31 when the store fails: get_session rolls back and re-raises, and
\* nothing in validar_todos_los_registros catches it.
IniciarLoteFalla ==
    /\ pc = "idle"
    /\ pc' = "raised"
    /\ registros' = <<>>
    /\ idx' = 1
    /\ resultados' = <<>>
    /\ resultado' = SinResultado
    /\ excepcion' = EXC_DB
    /\ pendientes_leidos' = {}
    /\ llamadas' = ConSesion(SinLlamadas, get_session(TRUE))
    /\ consultas' = SinConsultas
    /\ UNCHANGED <<registros_webhook, reloj, http>>

\* Lines 50-51: validate the row and append its outcome.
ValidarRegistro(ext, cmp) ==
    /\ pc = "loop"
    /\ idx <= Len(registros)
    /\ LET registro == registros[idx]
           res == _validar_registro_individual(registro, ext, cmp)
       IN  /\ resultado' = res
           /\ resultados' = Append(resultados, res)
           /\ llamadas' = [llamadas EXCEPT
                 !.extraer = @ + (IF LlamaExtraccion(registro) THEN 1 ELSE 0),
                 !.comparar = @ + (IF LlamaComparacion(registro, ext) THEN 1 ELSE 0)]
    /\ consultas' =
          [ext |-> IF LlamaExtraccion(registros[idx]) THEN ext ELSE NoExt,
           cmp |-> IF LlamaComparacion(registros[idx], ext) THEN cmp
                   ELSE NoCmp,
           datos |-> IF LlamaComparacion(registros[idx], ext)
                     THEN extraer_datos_factura(
                              registros[idx].factura_base64, ext)
                     ELSE VAusente,
           ordenes |-> IF LlamaComparacion(registros[idx], ext)
                       THEN registros[idx].ordenes_de_compra ELSE <<>>]
    /\ pc' = "validado"
    /\ UNCHANGED <<registros_webhook, registros, idx, excepcion, reloj,
                   pendientes_leidos, http>>

\* Line 52: write the outcome. A failed write is rolled back and re-raised by
\* _actualizar_registro; the except block of the loop (lines 57-73) catches
\* it, builds resultado_error and appends it.
ActualizarRegistro(falla) ==
    /\ pc = "validado"
    /\ \E s \in {get_session(falla)} :
       IF ~s.relanza
       THEN /\ registros_webhook' =
                  _actualizar_registro(registros_webhook, registros[idx].id,
                                       resultado, reloj)
            /\ llamadas' =
                  ConSesion([llamadas EXCEPT !.escrituras = @ + 1], s)
            /\ idx' = idx + 1
            /\ pc' = "loop"
            /\ UNCHANGED <<resultado, resultados, excepcion>>
       ELSE /\ excepcion' = EXC_DB
            /\ resultado' = resultado_error(registros[idx], EXC_DB)
            /\ resultados' =
                  Append(resultados, resultado_error(registros[idx], EXC_DB))
            /\ pc' = "except"
            /\ llamadas' = ConSesion(llamadas, s)
            /\ UNCHANGED <<registros_webhook, idx>>
    /\ consultas' = SinConsultas
    /\ UNCHANGED <<registros, reloj, pendientes_leidos, http>>

\* Line 74: write resultado_error from inside the except block; a failure
\* here leaves validar_todos_los_registros as an exception.
ActualizarRegistroError(falla) ==
    /\ pc = "except"
    /\ \E s \in {get_session(falla)} :
       IF ~s.relanza
       THEN /\ registros_webhook' =
                  _actualizar_registro(registros_webhook, registros[idx].id,
                                       resultado, reloj)
            /\ llamadas' =
                  ConSesion([llamadas EXCEPT !.escrituras = @ + 1], s)
            /\ idx' = idx + 1
            /\ pc' = "loop"
            /\ UNCHANGED excepcion
       ELSE /\ excepcion' = EXC_DB
            /\ pc' = "raised"
            /\ llamadas' = ConSesion(llamadas, s)
            /\ UNCHANGED <<registros_webhook, idx>>
    /\ UNCHANGED <<registros, resultados, resultado, reloj,
                   pendientes_leidos, consultas, http>>

\* Line 84: return resultados.
FinLote ==
    /\ pc = "loop"
    /\ idx > Len(registros)
    /\ pc' = "returned"
    /\ UNCHANGED <<registros_webhook, registros, idx, resultados, resultado,
                   excepcion, reloj, pendientes_leidos, llamadas, consultas,
                   http>>

\* The caller (ejecutar_validacion) has the list or the exception; the
\* scheduler thread is free for the next run.
Terminar ==
    /\ pc \in {"returned", "raised"}
    /\ pc' = "idle"
    /\ registros' = <<>>
    /\ idx' = 1
    /\ resultados' = <<>>
    /\ resultado' = SinResultado
    /\ excepcion' = NoneTxt
    /\ pendientes_leidos' = {}
    /\ llamadas' = SinLlamadas
    /\ consultas' = SinConsultas
    /\ UNCHANGED <<registros_webhook, reloj, http>>

\* ---------------------------------------------------------- POST /webhook
\* An uploaded file: sent or not, and its bytes.
SinArchivo == [enviado |-> FALSE, contenido |-> ""]
Archivo(contenido) == [enviado |-> TRUE, contenido |-> contenido]

RespuestaNinguna == [status |-> "none", registro_id |-> 0, detail |-> <<>>]

PeticionNinguna ==
    [archivo_leido |-> FALSE, campo |-> NoneTxt, ocs_leidas |-> 0, fases |-> 0,
     sesion |-> SinSesion]

\* Faulty variant: the request is stored even when it carries nothing.
Responder_sin_ignorar(tabla, factura_b64, p, falla, ahora) ==
    IF p.error
    THEN [tabla |-> tabla, ocs |-> p.ocs, sesion |-> SinSesion,
          respuesta |-> [status |-> "error500", registro_id |-> 0,
                         detail |-> p.e]]
    ELSE IF get_session(falla).relanza
    THEN [tabla |-> tabla, ocs |-> p.ocs, sesion |-> get_session(falla),
          respuesta |-> [status |-> "error500", registro_id |-> 0,
                         detail |-> EXC_DB]]
    ELSE [tabla |-> Append(tabla, RegistroWebhook(Len(tabla) + 1, ahora,
                                                  factura_b64, p.ocs)),
          ocs |-> p.ocs, sesion |-> get_session(falla),
          respuesta |-> [status |-> "success",
                         registro_id |-> Len(tabla) + 1, detail |-> <<>>]]

\* receive_webhook with _guardar_registro_sync: the table after the request,
\* the purchase orders read (ocs_finales) and the response. falla: the
\* store fails in the insert or its commit (rolled back, the exception
\* becomes HTTP 500). detail is the text of the exception of an HTTP 500.
Responder(tabla, factura_b64, p, falla, ahora) ==
    IF p.error
    THEN [tabla |-> tabla, ocs |-> p.ocs, sesion |-> SinSesion,
          respuesta |-> [status |-> "error500", registro_id |-> 0,
                         detail |-> p.e]]
    ELSE IF factura_b64 = None /\ p.ocs = <<>>
    THEN [tabla |-> tabla, ocs |-> p.ocs, sesion |-> SinSesion,
          respuesta |-> [status |-> "ignored", registro_id |-> 0,
                         detail |-> <<>>]]
    ELSE IF get_session(falla).relanza
    THEN [tabla |-> tabla, ocs |-> p.ocs, sesion |-> get_session(falla),
          respuesta |-> [status |-> "error500", registro_id |-> 0,
                         detail |-> EXC_DB]]
    ELSE [tabla |-> Append(tabla, RegistroWebhook(Len(tabla) + 1, ahora,
                                                  factura_b64, p.ocs)),
          ocs |-> p.ocs, sesion |-> get_session(falla),
          respuesta |-> [status |-> "success",
                         registro_id |-> Len(tabla) + 1, detail |-> <<>>]]

\* Lines 113-121: factura_b64, None without a file or with an empty one.
LeerFactura(factura) ==
    IF factura.enviado /\ factura.contenido # ""
    THEN b64encode(factura.contenido) ELSE None

receive_webhook(tabla, factura, ordenes_de_compra, falla, ahora) ==
    Responder(tabla, LeerFactura(factura), ProcesarOCs(ordenes_de_compra),
              falla, ahora)

\* One request, with the response and what the request carried recorded.
\* p is ProcesarOCs(ordenes_de_compra), computed once for the requests that
\* carry the same form field.
RecibirWebhook(factura, ordenes_de_compra, p, falla) ==
    /\ Len(registros_webhook) < MaxRecords
    /\ \E r \in {Responder(registros_webhook, LeerFactura(factura), p,
                            falla, reloj)} :
        /\ registros_webhook' = r.tabla
        /\ respuesta' = r.respuesta
        /\ peticion' =
              [archivo_leido |-> factura.enviado /\ factura.contenido # "",
               campo |-> ordenes_de_compra,
               ocs_leidas |-> Len(r.ocs),
               fases |-> p.fases,
               sesion |-> r.sesion]
        /\ UNCHANGED <<lote, reloj>>

\* One request seen from the store only (the response goes to the caller).
Ingerir(factura, ordenes_de_compra, falla) ==
    /\ Len(registros_webhook) < MaxRecords
    /\ \E r \in {receive_webhook(registros_webhook, factura,
                                  ordenes_de_compra, falla, reloj)} :
          /\ r.tabla # registros_webhook
          /\ registros_webhook' = r.tabla
    /\ UNCHANGED <<lote, reloj, http>>

\* Time passes.
Tic ==
    /\ reloj < MaxTime
    /\ reloj' = reloj + 1
    /\ UNCHANGED <<registros_webhook, lote, http>>

\* ------------------------------------------------------------------ inputs
\* Answers of the extraction service.
Extracciones ==
    {[falla |-> TRUE, valor |-> VNone],
     [falla |-> FALSE, valor |-> VNone],
     [falla |-> FALSE, valor |-> VDict(0)],
     [falla |-> FALSE, valor |-> VDict(6)],
     [falla |-> FALSE, valor |-> VDict(2)],
     [falla |-> FALSE, valor |-> VList(1)],
     [falla |-> FALSE, valor |-> VList(0)],
     [falla |-> FALSE, valor |-> VNum(7)]}

TXT_OK == <<"O","K"," ","-"," ","m","a","t","c","h","e","s"," ","P","O"," ","#","3">>
TXT_DISCREPANCIA == <<"D","I","S","C","R","E","P","A","N","C","I","A"," ","-"," ","a","m","o","u","n","t"," ","m","i","s","m","a","t","c","h">>
TXT_AMBOS == <<"o","k"," ","d","i","s","c","r","e","p","a","n","c","i","a"," ","b","o","t","h"," ","p","r","e","s","e","n","t">>
TXT_NINGUNO == <<"R","e","v","i","s","a","r"," ","m","a","n","u","a","l","m","e","n","t","e">>

\* Answers of the comparison service (texto is the exception text when it
\* fails).
Comparaciones ==
    {[falla |-> FALSE, texto |-> TXT_OK],
     [falla |-> FALSE, texto |-> TXT_DISCREPANCIA],
     [falla |-> FALSE, texto |-> TXT_AMBOS],
     [falla |-> FALSE, texto |-> TXT_NINGUNO],
     [falla |-> FALSE, texto |-> <<" ","o","k"," ","\n">>],
     [falla |-> FALSE, texto |-> <<>>],
     [falla |-> TRUE, texto |-> <<"t","i","m","e","o","u","t">>],
     [falla |-> TRUE, texto |-> <<"i","n","v","a","l","i","d"," ","t","o","k","e","n">>]}

\* The answers used while the whole service runs (every answer is tried in
\* the specification of one validation alone).
ExtraccionesLote == {[falla |-> FALSE, valor |-> VDict(6)]}
ComparacionesLote ==
    {[falla |-> FALSE, texto |-> TXT_OK],
     [falla |-> FALSE, texto |-> TXT_DISCREPANCIA]}

\* The requests sent while the whole service runs, and to the endpoint alone.
ArchivosLote == {SinArchivo, Archivo(""), Archivo("%PDF")}
CamposLote == {NoneTxt, F_VACIA, F_LISTA, F_BASURA}
Archivos == {SinArchivo, Archivo(""), Archivo("%PDF")}
Campos == {NoneTxt, <<>>, F_LISTA, F_ESCAPADA, F_CONTROL, F_BASURA, F_NULL,
           F_VACIA, F_NUM, F_NODICT, F_DICT, F_MIXTA, F_ESPACIOS, F_TEXTO,
           F_INVALIDA, F_MONEDA}

\* ---------------------------------------------------------- specifications
HistoriaInicial == [previa |-> "no", ingerido |-> FALSE]

SinParsear == [ok |-> FALSE, valor |-> JNone, hecho |-> FALSE]
SinNormalizar == [pendiente |-> TRUE]

\* No run of the orchestrator under way, no function applied on its own.
EnReposo ==
    /\ avisos = 0
    /\ reportados = [i \in 1..MaxRecords |-> 0]
    /\ otro = SinOtro
    /\ json_string = NoneTxt
    /\ parseado = SinParsear
    /\ item = CamposVacios
    /\ oc_normalizada = SinNormalizar

Init ==
    /\ registros_webhook = <<>>
    /\ pc = "idle"
    /\ registros = <<>>
    /\ idx = 1
    /\ resultados = <<>>
    /\ resultado = SinResultado
    /\ excepcion = NoneTxt
    /\ reloj = 1
    /\ pendientes_leidos = {}
    /\ historia = HistoriaInicial
    /\ llamadas = SinLlamadas
    /\ consultas = SinConsultas
    /\ respuesta = RespuestaNinguna
    /\ peticion = PeticionNinguna
    /\ EnReposo

Ingestion ==
    \E f \in ArchivosLote, o \in CamposLote : Ingerir(f, o, FALSE)
Validacion ==
    \E ext \in ExtraccionesLote, cmp \in ComparacionesLote :
        ValidarRegistro(ext, cmp)
Escritura == \E falla \in BOOLEAN : ActualizarRegistro(falla)
EscrituraError == \E falla \in BOOLEAN : ActualizarRegistroError(falla)

\* previa: while idle, how the last run ended ("returned", "raised") if no
\* row was inserted since that run read the table, else "no"; during a run,
\* the value it had when the run started. ingerido: a row was inserted
\* since the running batch read the table.
Historial ==
    historia' =
        IF Len(registros_webhook') > Len(registros_webhook)
        THEN IF pc = "idle" THEN HistoriaInicial
             ELSE [historia EXCEPT !.ingerido = TRUE]
        ELSE IF pc \in {"returned", "raised"} /\ pc' = "idle"
        THEN [previa |-> IF historia.ingerido THEN "no" ELSE pc,
              ingerido |-> FALSE]
        ELSE historia

\* The service: requests arrive at any time; the single scheduler thread
\* runs one batch after another. The history of runs is not kept, and
\* what the caller does with the outcome of a run is left out.
Next ==
    \/ Tic /\ UNCHANGED fijas
    \/ Ingestion /\ UNCHANGED fijas
    \/ IniciarLote /\ UNCHANGED fijas
    \/ IniciarLoteFalla /\ UNCHANGED fijas
    \/ Validacion /\ UNCHANGED fijas
    \/ Escritura /\ UNCHANGED fijas
    \/ EscrituraError /\ UNCHANGED fijas
    \/ FinLote /\ UNCHANGED fijas
    \/ Terminar /\ UNCHANGED fijas

Spec == Init /\ [][Next]_vars

\* The service with the history of runs kept. The clock is left where it
\* is: what a run selects does not depend on it.
NextHistoria ==
    \/ Ingestion /\ Historial /\ UNCHANGED <<puro, avisos, reportados, otro>>
    \/ IniciarLote /\ Historial /\ UNCHANGED <<puro, avisos, reportados, otro>>
    \/ IniciarLoteFalla /\ Historial /\ UNCHANGED <<puro, avisos, reportados, otro>>
    \/ Validacion /\ Historial /\ UNCHANGED <<puro, avisos, reportados, otro>>
    \/ Escritura /\ Historial /\ UNCHANGED <<puro, avisos, reportados, otro>>
    \/ EscrituraError /\ Historial /\ UNCHANGED <<puro, avisos, reportados, otro>>
    \/ FinLote /\ Historial /\ UNCHANGED <<puro, avisos, reportados, otro>>
    \/ Terminar /\ Historial /\ UNCHANGED <<puro, avisos, reportados, otro>>

SpecHistoria == Init /\ [][NextHistoria]_vars

\* The service while the store works: no read and no write fails. The
\* scheduler thread loops for as long as the process lives (main.py:137-141),
\* so a batch step that can be taken is taken; requests come or not.
NextVivo ==
    \/ Ingestion /\ UNCHANGED fijas
    \/ IniciarLote /\ UNCHANGED fijas
    \/ Validacion /\ UNCHANGED fijas
    \/ ActualizarRegistro(FALSE) /\ UNCHANGED fijas
    \/ FinLote /\ UNCHANGED fijas
    \/ Terminar /\ UNCHANGED fijas

\* Fairness of the scheduler thread, position by position. The step of the
\* validation (the collaborator calls return: each has its timeout) is
\* named by the positions it joins: from "loop" to "validado" the thread
\* takes Validacion steps only, and one can be taken whenever a row is left.
SpecVivo ==
    /\ Init
    /\ [][NextVivo]_vars
    /\ WF_vars(IniciarLote /\ UNCHANGED fijas)
    /\ WF_pc(pc = "loop" /\ idx <= Len(registros) /\ pc' = "validado")
    /\ WF_vars(ActualizarRegistro(FALSE) /\ UNCHANGED fijas)
    /\ WF_vars(FinLote /\ UNCHANGED fijas)
    /\ WF_vars(Terminar /\ UNCHANGED fijas)

\* ------------------------------------------------- one validation, alone
\* The rows handed to _validar_registro_individual: every combination of
\* the presence flags, with zero, one or two purchase orders.
OrdenesValidar ==
    {<<>>, <<to_normalized_dict(OC_A)>>,
     <<to_normalized_dict(OC_A), to_normalized_dict(OC_A)>>}
RegistrosValidar ==
    {RegistroWebhook(1, t, b, o) :
        t \in Tiempos, b \in {None, "JVBERg=="}, o \in OrdenesValidar}

\* The batch has read one pending row and is about to validate it.
InitValidar ==
    /\ \E registro \in RegistrosValidar :
          /\ registros_webhook = <<registro>>
          /\ registros = <<registro>>
          /\ reloj = registro.fecha_recepcion
    /\ pc = "loop"
    /\ idx = 1
    /\ resultados = <<>>
    /\ resultado = SinResultado
    /\ excepcion = NoneTxt
    /\ pendientes_leidos = {1}
    /\ historia = HistoriaInicial
    /\ llamadas = SinLlamadas
    /\ consultas = SinConsultas
    /\ respuesta = RespuestaNinguna
    /\ peticion = PeticionNinguna
    /\ EnReposo

ValidacionRica ==
    \E ext \in Extracciones, cmp \in Comparaciones : ValidarRegistro(ext, cmp)

NextValidar ==
    \/ ValidacionRica /\ UNCHANGED fijas
    \/ Escritura /\ UNCHANGED fijas
    \/ EscrituraError /\ UNCHANGED fijas

SpecValidar == InitValidar /\ [][NextValidar]_vars

\* ---------------------------------------------- batches over any table
\* Requests are served on worker threads (asyncio.to_thread): a request
\* reads the clock for fecha_recepcion before its INSERT gets its id, so
\* the ids of pending rows and their timestamps may disagree.
TablasOrden ==
    UNION {{[i \in 1..n |-> RegistroWebhook(i, ts[i], "JVBERg==",
                                             <<to_normalized_dict(OC_A)>>)] :
               ts \in [1..n -> Tiempos]} : n \in 1..MaxRecords}

InitOrden ==
    /\ registros_webhook \in TablasOrden
    /\ pc = "idle"
    /\ registros = <<>>
    /\ idx = 1
    /\ resultados = <<>>
    /\ resultado = SinResultado
    /\ excepcion = NoneTxt
    /\ reloj = MaxTime
    /\ pendientes_leidos = {}
    /\ historia = HistoriaInicial
    /\ llamadas = SinLlamadas
    /\ consultas = SinConsultas
    /\ respuesta = RespuestaNinguna
    /\ peticion = PeticionNinguna
    /\ EnReposo

NextOrden ==
    \/ IniciarLote /\ UNCHANGED fijas
    \/ Validacion /\ UNCHANGED fijas
    \/ Escritura /\ UNCHANGED fijas
    \/ EscrituraError /\ UNCHANGED fijas
    \/ FinLote /\ UNCHANGED fijas
    \/ Terminar /\ UNCHANGED fijas

SpecOrden == InitOrden /\ [][NextOrden]_vars

\* ------------------------------------------------------ the endpoint, alone
Peticion ==
    \E o \in Campos : \E p \in {ProcesarOCs(o)} :
        \E f \in Archivos, falla \in BOOLEAN : RecibirWebhook(f, o, p, falla)

NextWebhook ==
    \/ Peticion /\ UNCHANGED fijas

SpecWebhook == Init /\ [][NextWebhook]_vars

\* ------------------------------------------------- the units of work
\* The service with what each request did recorded, and store operations
\* that may fail in the endpoint as in the batch.
NextSesiones ==
    \/ (\E o \in CamposLote : \E p \in {ProcesarOCs(o)} :
          \E f \in ArchivosLote, falla \in BOOLEAN :
              RecibirWebhook(f, o, p, falla)) /\ UNCHANGED fijas
    \/ IniciarLote /\ UNCHANGED fijas
    \/ IniciarLoteFalla /\ UNCHANGED fijas
    \/ Validacion /\ UNCHANGED fijas
    \/ Escritura /\ UNCHANGED fijas
    \/ EscrituraError /\ UNCHANGED fijas
    \/ FinLote /\ UNCHANGED fijas
    \/ Terminar /\ UNCHANGED fijas

SpecSesiones == Init /\ [][NextSesiones]_vars

\* ------------------------------------------------- two executions at once
\* A second execution of validar_todos_los_registros, overlapping the
\* first (nothing in the validator or the store tells one execution of the
\* other): lines 31, 50-51, 52 and 84 of the same code, each store
\* operation a unit of work of its own. The comparison service finds a
\* discrepancy in every row of this execution.
SegundoLote ==
    /\ \/ /\ otro.pc = "idle"
          /\ \E filas \in _obtener_registros_pendientes(registros_webhook) :
                otro' = [SinOtro EXCEPT
                            !.pc = IF filas = <<>> THEN "returned" ELSE "loop",
                            !.registros = filas]
          /\ UNCHANGED registros_webhook
       \/ /\ otro.pc = "loop"
          /\ otro.idx <= Len(otro.registros)
          /\ \E ext \in ExtraccionesLote,
                cmp \in {[falla |-> FALSE, texto |-> TXT_DISCREPANCIA]},
                registro \in {otro.registros[otro.idx]} :
                otro' = [otro EXCEPT
                   !.resultado =
                       _validar_registro_individual(registro, ext, cmp),
                   !.extraer =
                       @ + (IF LlamaExtraccion(registro) THEN 1 ELSE 0),
                   !.comparar =
                       @ + (IF LlamaComparacion(registro, ext) THEN 1 ELSE 0),
                   !.pc = "validado"]
          /\ UNCHANGED registros_webhook
       \/ /\ otro.pc = "validado"
          /\ registros_webhook' =
                _actualizar_registro(registros_webhook,
                                     otro.registros[otro.idx].id,
                                     otro.resultado, reloj)
          /\ otro' = [otro EXCEPT !.idx = @ + 1, !.pc = "loop"]
       \/ /\ otro.pc = "loop"
          /\ otro.idx > Len(otro.registros)
          /\ otro' = [otro EXCEPT !.pc = "returned"]
          /\ UNCHANGED registros_webhook
    /\ UNCHANGED <<lote, reloj, http, historia, puro, avisos, reportados>>

\* Two executions of the batch over a table of pending rows.
NextSolape ==
    \/ IniciarLote /\ UNCHANGED fijas
    \/ Validacion /\ UNCHANGED fijas
    \/ ActualizarRegistro(FALSE) /\ UNCHANGED fijas
    \/ FinLote /\ UNCHANGED fijas
    \/ SegundoLote

SpecSolape == InitOrden /\ [][NextSolape]_vars

\* ------------------------------------------- the scheduled run, as a whole
\* GoogleChatService.send_advice: the message is posted inside a try whose
\* except logs whatever was raised (falla: the POST raised); a status other
\* than 200 is logged too. Nothing leaves the method.
\* Faulty variant: the failure of the POST is not caught.
send_advice_sin_captura(falla) == [invocado |-> TRUE, propaga |-> falla]

send_advice(falla) == [invocado |-> TRUE, propaga |-> FALSE]

\* main.py:77-79: an empty list of outcomes returns at once.
SinRegistrosParaProcesar ==
    /\ pc = "returned"
    /\ resultados = <<>>
    /\ pc' = "fin_vacio"
    /\ UNCHANGED <<registros_webhook, registros, idx, resultados, resultado,
                   excepcion, reloj, pendientes_leidos, llamadas, consultas,
                   http, avisos>>

\* main.py:83-88: the report is generated from the outcomes of the run and
\* uploaded; either step may raise, which the except of line 121 catches.
\* reportados counts the run for the rows of an uploaded report (2: twice
\* or more).
GenerarYSubirReporte(falla) ==
    /\ pc = "returned"
    /\ resultados # <<>>
    /\ pc' = IF falla THEN "error" ELSE "aviso"
    /\ excepcion' = IF falla
                    THEN <<"u","p","l","o","a","d"," ","f","a","i","l","e","d">>
                    ELSE excepcion
    /\ reportados' =
          [i \in 1..MaxRecords |->
              IF ~falla /\ \E k \in 1..Len(resultados) :
                               resultados[k].registro_id = i
              THEN IF reportados[i] = 0 THEN 1 ELSE 2
              ELSE reportados[i]]
    /\ UNCHANGED <<registros_webhook, registros, idx, resultados, resultado,
                   reloj, pendientes_leidos, llamadas, consultas, http,
                   avisos>>

\* main.py:106-119: the summary is sent; an exception leaving send_advice
\* would be caught at line 121 as any other.
EnviarNotificacion(falla) ==
    /\ pc = "aviso"
    /\ \E r \in {send_advice(falla)} :
          /\ avisos' = avisos + (IF r.invocado THEN 1 ELSE 0)
          /\ pc' = IF r.propaga THEN "error" ELSE "fin_ok"
    /\ UNCHANGED <<registros_webhook, registros, idx, resultados, resultado,
                   excepcion, reloj, pendientes_leidos, llamadas, consultas,
                   http>>

\* main.py:121-129: the run raised (validar_todos_los_registros, the report
\* or the upload); the error is sent inside a try of its own.
NotificarError(falla) ==
    /\ pc \in {"raised", "error"}
    /\ \E r \in {send_advice(falla)} :
          avisos' = avisos + (IF r.invocado THEN 1 ELSE 0)
    /\ pc' = "fin_error"
    /\ UNCHANGED <<registros_webhook, registros, idx, resultados, resultado,
                   excepcion, reloj, pendientes_leidos, llamadas, consultas,
                   http>>

\* ejecutar_validacion has returned; the scheduler waits for the next day.
ConcluirEjecucion ==
    /\ pc \in {"fin_vacio", "fin_ok", "fin_error"}
    /\ pc' = "idle"
    /\ registros' = <<>>
    /\ idx' = 1
    /\ resultados' = <<>>
    /\ resultado' = SinResultado
    /\ excepcion' = NoneTxt
    /\ pendientes_leidos' = {}
    /\ llamadas' = SinLlamadas
    /\ consultas' = SinConsultas
    /\ avisos' = 0
    /\ UNCHANGED <<registros_webhook, reloj, http>>

\* The process stops while a run is under way (signal_handler exits; the
\* scheduler thread is a daemon and dies with it) and is started again:
\* what the run held in memory is gone, the store is as the run left it.
Reinicio ==
    /\ pc \notin {"idle", "fin_vacio", "fin_ok", "fin_error"}
    /\ pc' = "idle"
    /\ registros' = <<>>
    /\ idx' = 1
    /\ resultados' = <<>>
    /\ resultado' = SinResultado
    /\ excepcion' = NoneTxt
    /\ pendientes_leidos' = {}
    /\ llamadas' = SinLlamadas
    /\ consultas' = SinConsultas
    /\ avisos' = 0
    /\ UNCHANGED <<registros_webhook, reloj, http, reportados>>

NextOrquestador ==
    \/ Ingestion /\ UNCHANGED fijas
    \/ IniciarLote /\ UNCHANGED fijas
    \/ IniciarLoteFalla /\ UNCHANGED fijas
    \/ Validacion /\ UNCHANGED fijas
    \/ Escritura /\ UNCHANGED fijas
    \/ EscrituraError /\ UNCHANGED fijas
    \/ FinLote /\ UNCHANGED fijas
    \/ SinRegistrosParaProcesar /\ UNCHANGED <<historia, puro, reportados, otro>>
    \/ (\E falla \in BOOLEAN : GenerarYSubirReporte(falla))
          /\ UNCHANGED <<historia, puro, otro>>
    \/ (\E falla \in BOOLEAN : EnviarNotificacion(falla))
          /\ UNCHANGED <<historia, puro, reportados, otro>>
    \/ (\E falla \in BOOLEAN : NotificarError(falla))
          /\ UNCHANGED <<historia, puro, reportados, otro>>
    \/ ConcluirEjecucion /\ UNCHANGED <<historia, puro, reportados, otro>>
    \/ Reinicio /\ UNCHANGED <<historia, puro, otro>>

SpecOrquestador == Init /\ [][NextOrquestador]_vars

\* --------------------------------------- the parser and the normalizer, alone
TXT_MONTO == <<"$","1",",","2","0","0",".","5","0">>

\* The mappings handed to the normalizer: the synonyms of one field set,
\* or a nested attached-data mapping under either name (whose n is the
\* number of keys it holds).
Items ==
    {[CamposVacios EXCEPT !.VendorName = a, !.vendor_name = b,
                          !.proveedor = c] :
        a \in {VNone, VStr(<<>>), VStr(<<"V">>)},
        b \in {VNone, VStr(<<"W">>)},
        c \in {VNone, VStr(<<>>), VStr(<<"P">>)}}
    \cup
    {[CamposVacios EXCEPT !.our_company = a, !.empresa = b, !.receptor = c] :
        a \in {VNone, VStr(<<"O">>)},
        b \in {VNone, VStr(<<"E">>)},
        c \in {VNone, VStr(<<"R">>)}}
    \cup
    {[CamposVacios EXCEPT !.moneda = a, !.currency = b] :
        a \in {VNone, VStr(<<"u","s","d">>)},
        b \in {VNone, VStr(<<"e","u","r">>)}}
    \cup
    {[CamposVacios EXCEPT !.id = a, !.oc_id = b, !.order_id = c] :
        a \in {VNone, VStr(<<>>), VStr(<<"A">>)},
        b \in {VNone, VStr(<<"B">>)},
        c \in {VNone, VStr(<<"C">>)}}
    \cup
    {[CamposVacios EXCEPT !.monto = a, !.total = b, !.amount = c] :
        a \in {VNone, VNum(0), VNum(1500), VStr(TXT_MONTO),
               VStr(<<"g","a","r","b","a","g","e">>), VStr(<<>>)},
        b \in {VNone, VNum(0), VNum(500), VStr(<<"1","5">>)},
        c \in {VNone, VNum(700)}}
    \cup
    UNION {{[c EXCEPT !.oc_attached_data = VDict(n)],
            [c EXCEPT !.datos_adicionales = VDict(n)]} :
        <<c, n>> \in
            {<<[CamposVacios EXCEPT !.oc_subject = a, !.oc_poDate = b,
                                    !.adquired_services = d,
                                    !.adquired_serviecs = e,
                                    !.authorized_by = f],
               Cardinality({v \in {<<1, a>>, <<2, b>>, <<3, d>>, <<4, e>>,
                                    <<5, f>>} : v[2] # VAusente})>> :
                a \in {VAusente, VStr(<<"S">>)},
                b \in {VAusente, VStr(<<"D">>)},
                d \in {VAusente, VList(0), VList(1)},
                e \in {VAusente, VList(2)},
                f \in {VAusente, VStr(<<"A","n","a">>)}}}

\* The texts handed to the parser.
Textos ==
    {F_LISTA, F_ESCAPADA, F_CONTROL, F_BASURA, F_NULL, F_VACIA, F_NUM,
     F_NODICT, F_DICT, F_MIXTA, F_ESPACIOS, F_TEXTO, F_INVALIDA, F_MONEDA,
     F_SIN_COMILLAS, F_CON_COMILLAS, F_CLAVE_EN_TEXTO,
     F_CLAVE_EN_TEXTO_CITADA, F_COMA,
     <<"{","i","d"," ",":"," ","\"","A","\"","}">>,
     <<"{","'","i","d","'",":"," ","'","A","'","}">>,
     <<"[","{","\"","i","d","\"",":","n","u","l","l","}",",","]">>}

InitFunciones ==
    /\ registros_webhook = <<>>
    /\ pc = "idle"
    /\ registros = <<>>
    /\ idx = 1
    /\ resultados = <<>>
    /\ resultado = SinResultado
    /\ excepcion = NoneTxt
    /\ reloj = 1
    /\ pendientes_leidos = {}
    /\ historia = HistoriaInicial
    /\ llamadas = SinLlamadas
    /\ consultas = SinConsultas
    /\ respuesta = RespuestaNinguna
    /\ peticion = PeticionNinguna
    /\ avisos = 0
    /\ reportados = [i \in 1..MaxRecords |-> 0]
    /\ otro = SinOtro
    /\ json_string \in Textos
    /\ parseado = SinParsear
    /\ item \in Items
    /\ oc_normalizada = SinNormalizar

\* parse_flexible_json(json_string)
Parsear ==
    /\ parseado = SinParsear
    /\ \E r \in {parse_flexible_json(json_string)} :
          parseado' = [ok |-> r.ok, valor |-> r.valor, hecho |-> TRUE]
    /\ UNCHANGED <<registros_webhook, lote, reloj, http, historia, avisos,
                   reportados, otro, json_string, item, oc_normalizada>>

\* OrdenCompraInput(**item).to_normalized_dict()
Normalizar ==
    /\ oc_normalizada = SinNormalizar
    /\ Valida(item)
    /\ oc_normalizada' = to_normalized_dict(item)
    /\ UNCHANGED <<registros_webhook, lote, reloj, http, historia, avisos,
                   reportados, otro, json_string, parseado, item>>

NextFunciones ==
    \/ Parsear
    \/ Normalizar

SpecFunciones == InitFunciones /\ [][NextFunciones]_vars

\* ------------------------------------------------------------------ claims
\* C1: validating a pending record classifies it from its presence flags:
\* no invoice and no purchase order gives sin_oc_ni_factura; no invoice but
\* purchase orders gives sin_factura; an invoice without purchase orders
\* gives sin_oc with the fixed sentinel text, after one extraction call
\* whose answer (None when the call failed) is kept in the outcome. All
\* three outcomes are anomalous.
C1_ClasificaPorBanderas ==
    pc = "validado" =>
        LET registro == registros[idx]
        IN  /\ (~registro.tiene_factura /\ ~registro.tiene_oc) =>
                  /\ resultado.es_anomalia
                  /\ resultado.tipo_anomalia = SIN_OC_NI_FACTURA
            /\ (~registro.tiene_factura /\ registro.tiene_oc) =>
                  /\ resultado.es_anomalia
                  /\ resultado.tipo_anomalia = SIN_FACTURA
            /\ (registro.tiene_factura /\ ~registro.tiene_oc) =>
                  /\ resultado.es_anomalia
                  /\ resultado.tipo_anomalia = SIN_OC
                  /\ resultado.resultado_openai = MSG_SIN_OC
                  /\ llamadas.extraer = 1
                  /\ consultas.ext # NoExt
                  /\ resultado.datos_factura =
                        (IF consultas.ext.falla THEN VNone
                         ELSE consultas.ext.valor)

\* An invoice without purchase orders was validated and the object the
\* extraction returned is in the outcome.
C1_Witness ==
    /\ pc = "validado"
    /\ registros[idx].tiene_factura
    /\ ~registros[idx].tiene_oc
    /\ resultado.tipo_anomalia = SIN_OC
    /\ resultado.datos_factura = VDict(6)

\* C2: for a record with invoice and purchase orders whose extraction
\* returned a non-empty object, the outcome is non-anomalous exactly when
\* the upper-cased comparison text contains OK and not DISCREPANCIA;
\* otherwise it is anomalous with kind discrepancias; the comparison text
\* is the outcome's validation result.
C2_VeredictoPorTokens ==
    (/\ pc = "validado"
     /\ registros[idx].tiene_factura
     /\ registros[idx].tiene_oc
     /\ ~consultas.ext.falla
     /\ consultas.ext.valor.t = "dict"
     /\ consultas.ext.valor.n > 0) =>
        LET texto == IF consultas.cmp.falla
                     THEN PREFIJO_ERROR_COMPARACION \o consultas.cmp.texto
                     ELSE strip(consultas.cmp.texto)
            mayus == upper(texto)
            limpio == Contains(mayus, TOK_OK)
                      /\ ~Contains(mayus, TOK_DISCREPANCIA)
        IN  /\ consultas.cmp # NoCmp
            /\ resultado.resultado_openai = texto
            /\ resultado.es_anomalia = ~limpio
            /\ resultado.tipo_anomalia =
                  (IF limpio THEN None ELSE DISCREPANCIAS)

\* A comparison answer holding both tokens was classified as a discrepancy.
C2_Witness ==
    /\ pc = "validado"
    /\ registros[idx].tiene_factura
    /\ registros[idx].tiene_oc
    /\ consultas.cmp = [falla |-> FALSE, texto |-> TXT_AMBOS]
    /\ resultado.tipo_anomalia = DISCREPANCIAS

\* C3: over any sequence of ingestions and batch runs, a row that is
\* processed is never written again (so its processed flag turns true at
\* most once and never back), the processed flag and processed_at are set
\* in the same step, and no step writes a row without marking it
\* processed; rows are never removed.
C3_ProcesadoUnaVez ==
    [][/\ Len(registros_webhook') >= Len(registros_webhook)
       /\ \A i \in 1..Len(registros_webhook) :
             LET antes == registros_webhook[i]
                 despues == registros_webhook'[i]
             IN  /\ antes.procesado => despues = antes
                 /\ despues.procesado = (despues.fecha_procesamiento # NULL_TS)
                 /\ ~despues.procesado => despues = antes]_vars

\* A row processed by an earlier step is in the table while the batch
\* holds the outcome of another row, not yet written.
C3_Witness ==
    /\ pc = "validado"
    /\ \E i \in 1..Len(registros_webhook) :
          /\ registros_webhook[i].procesado
          /\ registros_webhook[i].fecha_procesamiento # NULL_TS
          /\ registros[idx].id # i

\* C4: in every reachable state of the table, a row with procesado false
\* has es_anomalia false and no tipo_anomalia, fecha_procesamiento,
\* resultado_validacion or datos_factura_json.
C4_PendienteSinResultado ==
    \A i \in 1..Len(registros_webhook) :
        ~registros_webhook[i].procesado =>
            /\ registros_webhook[i].es_anomalia = FALSE
            /\ registros_webhook[i].tipo_anomalia = None
            /\ registros_webhook[i].fecha_procesamiento = NULL_TS
            /\ registros_webhook[i].resultado_validacion = NoneTxt
            /\ registros_webhook[i].datos_factura_json = VNone

\* The write of an anomalous outcome failed and was rolled back: the row
\* is still pending.
C4_Witness ==
    /\ pc = "except"
    /\ resultados[1].es_anomalia
    /\ ~registros_webhook[registros[idx].id].procesado

\* C5 (as amended): an exception raised in the per-record step is caught
\* at batch level and an error outcome is appended and written. Once that
\* write is committed the row is processed, anomalous, of kind
\* error_procesamiento_factura, with "Error: " and the exception text as
\* its validation result, and the run goes on: when it returns, every row
\* it selected is processed. If the write of the error outcome fails too,
\* the run raises with that row and the rows after it still pending.
C5_ErrorPorRegistro ==
    /\ \A k \in 1..Len(resultados) :
          (/\ "num_ordenes" \notin DOMAIN resultados[k]
           /\ ~(k = Len(resultados) /\ pc \in {"except", "raised"})) =>
              LET fila == registros_webhook[resultados[k].registro_id]
              IN  /\ fila.procesado
                  /\ fila.es_anomalia
                  /\ fila.tipo_anomalia = ERROR_PROCESAMIENTO
                  /\ fila.resultado_validacion = PREFIJO_ERROR \o EXC_DB
    /\ pc = "returned" =>
          \A k \in 1..Len(registros) :
              registros_webhook[registros[k].id].procesado
    /\ (pc = "raised" /\ registros # <<>>) =>
          /\ "num_ordenes" \notin DOMAIN resultados[Len(resultados)]
          /\ \A k \in idx..Len(registros) :
                ~registros_webhook[registros[k].id].procesado

\* A run of two rows returned: the write of the first row's outcome had
\* failed and the row ended as a processing error; the second row was
\* processed after it with the outcome computed for it.
C5_Witness ==
    /\ pc = "returned"
    /\ Len(registros) = 2
    /\ registros_webhook[registros[1].id].tipo_anomalia = ERROR_PROCESAMIENTO
    /\ registros_webhook[registros[1].id].resultado_validacion =
          PREFIJO_ERROR \o EXC_DB
    /\ registros_webhook[registros[2].id].procesado
    /\ registros_webhook[registros[2].id].tipo_anomalia # ERROR_PROCESAMIENTO

\* C5 as stated: whatever exception is raised in the per-record step, the
\* row ends processed as a processing error, and the run never aborts:
\* every row it selected is processed.
C5_Original ==
    /\ \A k \in 1..Len(resultados) :
          (/\ "num_ordenes" \notin DOMAIN resultados[k]
           /\ ~(k = Len(resultados) /\ pc = "except")) =>
              LET fila == registros_webhook[resultados[k].registro_id]
              IN  /\ fila.procesado
                  /\ fila.es_anomalia
                  /\ fila.tipo_anomalia = ERROR_PROCESAMIENTO
                  /\ fila.resultado_validacion = PREFIJO_ERROR \o EXC_DB
    /\ (pc \in {"returned", "raised"} /\ registros # <<>>) =>
          /\ pc = "returned"
          /\ \A k \in 1..Len(registros) :
                registros_webhook[registros[k].id].procesado

\* C6 as stated: a failed write of an outcome makes the batch run raise
\* (a run that returns had no failed write), and the stored outcome of a
\* row is the outcome the decision sequence computed for it.
C6_Original ==
    /\ pc = "returned" => excepcion = NoneTxt
    /\ \A k \in 1..Len(resultados) :
          LET res == resultados[k]
              fila == registros_webhook[res.registro_id]
          IN  ("num_ordenes" \in DOMAIN res /\ fila.procesado) =>
                  /\ fila.es_anomalia = res.es_anomalia
                  /\ fila.tipo_anomalia = res.tipo_anomalia
                  /\ fila.resultado_validacion = res.resultado_openai
                  /\ fila.datos_factura_json = res.datos_factura

\* C7 (as amended): if a batch run returned normally and no row was
\* inserted since it read the table, the next run selects nothing: it
\* returns an empty list (or raises, if its own read of the table fails),
\* calls no collaborator and writes nothing.
C7_SegundaCorridaVacia ==
    (historia.previa = "returned" /\ pc # "idle") =>
        /\ pc \in {"returned", "raised"}
        /\ pendientes_leidos = {}
        /\ registros = <<>>
        /\ resultados = <<>>
        /\ llamadas.extraer = 0
        /\ llamadas.comparar = 0
        /\ llamadas.escrituras = 0

\* A second run, right after a run that processed rows and returned, has
\* returned an empty list.
C7_Witness ==
    /\ historia.previa = "returned"
    /\ pc = "returned"
    /\ resultados = <<>>
    /\ \E i \in 1..Len(registros_webhook) : registros_webhook[i].procesado

\* C7 as stated: whenever the batch is run twice with no row inserted in
\* between, however the first run ended, the second run selects nothing,
\* calls no collaborator and writes nothing.
C7_Original ==
    (historia.previa # "no" /\ pc # "idle") =>
        /\ pc \in {"returned", "raised"}
        /\ pendientes_leidos = {}
        /\ registros = <<>>
        /\ resultados = <<>>
        /\ llamadas.extraer = 0
        /\ llamadas.comparar = 0
        /\ llamadas.escrituras = 0

\* C8 as stated: the list a batch run returns holds exactly one outcome
\* for each row that was pending when the run read the table, and no
\* outcome of any other row.
C8_Original ==
    pc = "returned" =>
        /\ \A id \in pendientes_leidos :
              Cardinality({k \in 1..Len(resultados) :
                              resultados[k].registro_id = id}) = 1
        /\ \A k \in 1..Len(resultados) :
              resultados[k].registro_id \in pendientes_leidos

\* C9: within one batch run the rows are processed, and their outcomes
\* returned, in ascending fecha_recepcion order, whatever the order of
\* their ids: an earlier position never holds a later timestamp.
C9_OrdenAscendente ==
    /\ \A i, j \in 1..Len(registros) :
          i < j => registros[i].fecha_recepcion <= registros[j].fecha_recepcion
    /\ \A i, j \in 1..Len(resultados) :
          i < j => resultados[i].fecha_recepcion
                       <= resultados[j].fecha_recepcion

\* A run returned the outcome of a row before the outcome of a row with a
\* smaller id and a later timestamp.
C9_Witness ==
    /\ pc = "returned"
    /\ Len(resultados) >= 2
    /\ resultados[1].registro_id > resultados[2].registro_id
    /\ resultados[1].fecha_recepcion < resultados[2].fecha_recepcion

\* C10: a request answered with success adds exactly one row to the
\* table, leaving the others as they were; the new row is pending, its
\* tiene_factura is true exactly when a non-empty file was read, its
\* tiene_oc is true exactly when at least one purchase order was read from
\* the form field (false for a field that does not parse), and the
\* registro_id of the response is the id of that row.
C10_UnRegistroPorExito ==
    [][(respuesta'.status = "success"
        /\ (respuesta' # respuesta \/ registros_webhook' # registros_webhook))
       =>
       /\ Len(registros_webhook') = Len(registros_webhook) + 1
       /\ SubSeq(registros_webhook', 1, Len(registros_webhook))
             = registros_webhook
       /\ LET nuevo == registros_webhook'[Len(registros_webhook')]
          IN  /\ nuevo.id = respuesta'.registro_id
              /\ nuevo.id = Len(registros_webhook')
              /\ nuevo.procesado = FALSE
              /\ nuevo.tiene_factura = peticion'.archivo_leido
              /\ nuevo.tiene_oc = (peticion'.ocs_leidas > 0)
              /\ peticion'.campo \in {NoneTxt, <<>>, F_BASURA, F_ESPACIOS}
                    => ~nuevo.tiene_oc
              /\ peticion'.campo \in {F_LISTA, F_ESCAPADA, F_CONTROL}
                    => nuevo.tiene_oc]_vars

\* A request with an invoice file and a purchase-order field that does not
\* parse was accepted: its row has tiene_factura and no tiene_oc.
C10_Witness ==
    /\ respuesta.status = "success"
    /\ peticion.campo = F_BASURA
    /\ peticion.archivo_leido
    /\ registros_webhook[respuesta.registro_id].tiene_factura
    /\ ~registros_webhook[respuesta.registro_id].tiene_oc
    /\ ~registros_webhook[respuesta.registro_id].procesado

\* C11: a request that carries no usable invoice (no file, or an empty
\* one) and a purchase-order field that is absent, empty, does not parse in
\* any phase, or parses to nothing, is answered {status: "ignored"} and
\* leaves the table as it was.
C11_IgnoradoSinRegistro ==
    [][(/\ ~peticion'.archivo_leido
        /\ peticion'.campo \in {NoneTxt, <<>>, F_BASURA, F_ESPACIOS, F_NULL,
                                F_VACIA})
       =>
       /\ respuesta'.status = "ignored"
       /\ registros_webhook' = registros_webhook]_vars

\* With a row already stored, a request without a file whose field does
\* not parse was answered "ignored".
C11_Witness ==
    /\ respuesta.status = "ignored"
    /\ peticion.campo = F_BASURA
    /\ ~peticion.archivo_leido
    /\ Len(registros_webhook) = 1

\* C12 as stated: whatever the purchase-order form field holds, the request
\* never ends with HTTP 500 because of it: an HTTP 500 comes from the store
\* only.
C12_Original ==
    respuesta.status = "error500" => respuesta.detail = EXC_DB

\* C13 (as amended): the purchase orders of a stored row are absent or a
\* non-empty sequence (tiene_oc tells which) whose every element is either
\* a normalized object with id, proveedor, empresa, a numeric monto and an
\* upper-cased moneda, or the item as it was parsed, which happens only
\* for an element that is no mapping or a mapping OrdenCompraInput rejects.
C13_NormalizadasOCrudas ==
    \A i \in 1..Len(registros_webhook) :
        LET ocs == registros_webhook[i].ordenes_de_compra
        IN  /\ registros_webhook[i].tiene_oc = (ocs # <<>>)
            /\ \A k \in 1..Len(ocs) :
                  IF "t" \in DOMAIN ocs[k]
                  THEN \/ ocs[k].t # "dict"
                       \/ \E f \in {"id", "proveedor", "moneda"} :
                             ocs[k].campos[f].t \notin {"None", "str"}
                  ELSE /\ {"id", "proveedor", "empresa", "monto", "moneda"}
                             \subseteq DOMAIN ocs[k]
                       /\ ocs[k].monto \in Nat
                       /\ ocs[k].moneda = upper(ocs[k].moneda)
                       /\ ocs[k].moneda # <<>>

\* A stored row holds a normalized object followed by a raw number, and
\* another one holds an object whose currency was upper-cased.
C13_Witness ==
    /\ \E i \in 1..Len(registros_webhook) :
          LET ocs == registros_webhook[i].ordenes_de_compra
          IN  /\ Len(ocs) = 2
              /\ "moneda" \in DOMAIN ocs[1]
              /\ "t" \in DOMAIN ocs[2]
    /\ \E i \in 1..Len(registros_webhook) :
          LET ocs == registros_webhook[i].ordenes_de_compra
          IN  /\ Len(ocs) = 1
              /\ "moneda" \in DOMAIN ocs[1]
              /\ ocs[1].moneda = <<"U","S","D">>

\* C13 as stated: every element of the purchase orders of every stored row
\* is a normalized object; no raw item is ever stored.
C13_Original ==
    \A i \in 1..Len(registros_webhook) :
        LET ocs == registros_webhook[i].ordenes_de_compra
        IN  \A k \in 1..Len(ocs) :
                /\ "t" \notin DOMAIN ocs[k]
                /\ {"id", "proveedor", "empresa", "monto", "moneda"}
                      \subseteq DOMAIN ocs[k]

\* C14 as stated: the supplier is the first populated of VendorName,
\* vendor_name, proveedor; the company the first populated of our_company,
\* empresa, receptor; the currency the first populated of moneda, currency
\* (upper-cased). Stated for mappings none of whose synonyms is an empty
\* text, so that null and empty do not differ.
C14_Original ==
    ("id" \in DOMAIN oc_normalizada
     /\ \A k \in {"VendorName", "vendor_name", "proveedor", "our_company",
                  "empresa", "receptor", "moneda", "currency"} :
           item[k] # VStr(<<>>)) =>
        LET Primero(a, b, c, defecto) ==
                IF a.t # "None" THEN a.s
                ELSE IF b.t # "None" THEN b.s
                ELSE IF c.t # "None" THEN c.s
                ELSE defecto
        IN  /\ oc_normalizada.proveedor =
                  Primero(item.VendorName, item.vendor_name, item.proveedor,
                          <<"N","/","A">>)
            /\ oc_normalizada.empresa =
                  Primero(item.our_company, item.empresa, item.receptor,
                          <<"N","/","A">>)
            /\ oc_normalizada.moneda =
                  upper(Primero(item.moneda, item.currency, VNone,
                                <<"M","X","N">>))

\* C15 as stated: the first synonym that is not null wins, also when it is
\* zero or empty. Stated in the order the code tries the synonyms (id,
\* oc_id, order_id; proveedor, VendorName, vendor_name; monto, total,
\* amount), for an amount whose first non-null synonym is a number.
C15_Original ==
    "id" \in DOMAIN oc_normalizada =>
        LET Primero(a, b, c) ==
                IF a.t # "None" THEN a
                ELSE IF b.t # "None" THEN b
                ELSE c
            oid == Primero(item.id, item.oc_id, item.order_id)
            prov == Primero(item.proveedor, item.VendorName, item.vendor_name)
            mnt == Primero(item.monto, item.total, item.amount)
        IN  /\ oid.t = "str" => oc_normalizada.id = oid.s
            /\ prov.t = "str" => oc_normalizada.proveedor = prov.s
            /\ mnt.t = "num" => oc_normalizada.monto = mnt.n

\* C16: the normalized amount is always a number (in hundredths). Without
\* any amount synonym it is 0; otherwise it is what one of the synonyms
\* that are present converts to, where a number converts to itself,
\* "$1,200.50" to 1200.50, "15" to 15, and "garbage" and the empty text to
\* 0.
C16_MontoNuncaFalla ==
    "id" \in DOMAIN oc_normalizada =>
        LET Esperado(v) ==
                CASE v.t = "num" -> v.n
                  [] v.t = "str" /\ v.s = TXT_MONTO -> 120050
                  [] v.t = "str" /\ v.s = <<"1","5">> -> 1500
                  [] OTHER -> 0
            presentes == {k \in {"monto", "total", "amount"} :
                             item[k].t # "None"}
        IN  /\ oc_normalizada.monto \in Nat
            /\ presentes = {} => oc_normalizada.monto = 0
            /\ presentes # {} =>
                  oc_normalizada.monto \in {Esperado(item[k]) : k \in presentes}

\* The amount "$1,200.50" was normalized to 1200.50.
C16_Witness ==
    /\ "id" \in DOMAIN oc_normalizada
    /\ item.monto = VStr(TXT_MONTO)
    /\ oc_normalizada.monto = 120050

\* C17 as stated: with a nested attached-data mapping, the normalized
\* object holds concepto, fecha_orden, servicios and a field for
\* authorized_by for each of oc_subject, oc_poDate, adquired_services and
\* authorized_by that the mapping holds (services: a non-empty list);
\* without a mapping it holds none of them.
C17_Original ==
    "id" \in DOMAIN oc_normalizada =>
        IF item.oc_attached_data.t = "dict" \/ item.datos_adicionales.t = "dict"
        THEN /\ item.oc_subject.t # "ausente" =>
                   /\ "concepto" \in DOMAIN oc_normalizada
                   /\ oc_normalizada.concepto = item.oc_subject
             /\ item.oc_poDate.t # "ausente" =>
                   /\ "fecha_orden" \in DOMAIN oc_normalizada
                   /\ oc_normalizada.fecha_orden = item.oc_poDate
             /\ Truthy(item.adquired_services) =>
                   /\ "servicios" \in DOMAIN oc_normalizada
                   /\ oc_normalizada.servicios = item.adquired_services
             /\ item.authorized_by.t # "ausente" =>
                   {"authorized_by", "autorizado_por"}
                       \cap DOMAIN oc_normalizada # {}
        ELSE DOMAIN oc_normalizada =
                 {"id", "proveedor", "empresa", "monto", "moneda"}

\* C18 as stated: a text that is JSON but for its bare keys parses to what
\* the same text with the keys in double quotes parses to, also when a
\* string value holds an identifier followed by a colon.
C18_Original ==
    (parseado.hecho /\ json_string \in {F_SIN_COMILLAS, F_CLAVE_EN_TEXTO}) =>
        LET citado == IF json_string = F_SIN_COMILLAS THEN F_CON_COMILLAS
                      ELSE F_CLAVE_EN_TEXTO_CITADA
        IN  /\ parseado.ok
            /\ parseado.valor = json_loads(citado).valor

\* C19 (as amended): when ejecutar_validacion ends, send_advice was called
\* exactly once if the run produced outcomes (whether the report and the
\* summary went through or an error had to be reported) or raised; it was
\* not called at all if the run found no pending row. Nothing is raised
\* by ejecutar_validacion: it always ends in one of these three ways.
C19_AvisoPorCorrida ==
    /\ pc = "fin_vacio" => (avisos = 0 /\ resultados = <<>>)
    /\ pc = "fin_ok" => (avisos = 1 /\ resultados # <<>>)
    /\ pc = "fin_error" => avisos = 1
    /\ pc \in {"idle", "loop", "validado", "except", "returned", "raised"}
          => avisos = 0

\* A run whose writes failed raised, and the error was notified once.
C19_Witness ==
    /\ pc = "fin_error"
    /\ avisos = 1
    /\ registros # <<>>
    /\ excepcion = EXC_DB

\* C19 as stated: send_advice is called in every execution of
\* ejecutar_validacion, also in one that found no pending row.
C19_Original ==
    pc \in {"fin_vacio", "fin_ok", "fin_error"} => avisos >= 1

\* C20 (as amended): for a row with invoice and purchase orders, the
\* comparison is called, once, with the extracted object and the row's
\* purchase orders, exactly when the extraction returned a non-empty JSON
\* object; in every other case (the call failed, or returned null, an empty
\* object or a value that is no object) no comparison is made and the
\* outcome is a processing error with the fixed text.
C20_ComparaSiHayDatos ==
    (/\ pc = "validado"
     /\ registros[idx].tiene_factura
     /\ registros[idx].tiene_oc) =>
        LET exito == /\ ~consultas.ext.falla
                     /\ consultas.ext.valor.t = "dict"
                     /\ consultas.ext.valor.n > 0
        IN  /\ consultas.ext # NoExt
            /\ llamadas.extraer = 1
            /\ llamadas.comparar = (IF exito THEN 1 ELSE 0)
            /\ (consultas.cmp # NoCmp) = exito
            /\ exito =>
                  /\ consultas.datos = consultas.ext.valor
                  /\ consultas.ordenes = registros[idx].ordenes_de_compra
                  /\ Len(consultas.ordenes) = resultado.num_ordenes
                  /\ resultado.tipo_anomalia # ERROR_PROCESAMIENTO
            /\ ~exito =>
                  /\ resultado.es_anomalia
                  /\ resultado.tipo_anomalia = ERROR_PROCESAMIENTO
                  /\ resultado.resultado_openai = MSG_FALLO_EXTRACCION

\* The extraction returned an empty object: no comparison was made and the
\* outcome is a processing error.
C20_Witness ==
    /\ pc = "validado"
    /\ registros[idx].tiene_factura
    /\ registros[idx].tiene_oc
    /\ consultas.ext = [falla |-> FALSE, valor |-> VDict(0)]
    /\ llamadas.comparar = 0
    /\ resultado.tipo_anomalia = ERROR_PROCESAMIENTO

\* C20 as stated: the comparison is called exactly when the extraction
\* neither failed nor returned null; an empty object leads to comparison.
C20_Original ==
    (/\ pc = "validado"
     /\ registros[idx].tiene_factura
     /\ registros[idx].tiene_oc) =>
        llamadas.comparar =
            (IF ~consultas.ext.falla /\ consultas.ext.valor.t # "None"
             THEN 1 ELSE 0)

\* C21 as stated: when the extraction of a row with invoice and purchase
\* orders fails (the call failed, or it returned null or a value that is
\* no object), the row is written as a processing error with the fixed
\* text, no comparison was made, and the stored datos_factura_json is
\* null.
C21_Original ==
    [][(/\ pc = "validado"
        /\ pc' = "loop"
        /\ registros[idx].tiene_factura
        /\ registros[idx].tiene_oc
        /\ \/ consultas.ext.falla
           \/ consultas.ext.valor.t # "dict")
       =>
       /\ llamadas.comparar = 0
       /\ registros_webhook'[idx].procesado
       /\ registros_webhook'[idx].tipo_anomalia = ERROR_PROCESAMIENTO
       /\ registros_webhook'[idx].resultado_validacion = MSG_FALLO_EXTRACCION
       /\ registros_webhook'[idx].datos_factura_json = VNone]_vars

\* C22: validating a row without invoice calls neither collaborator;
\* validating a row with an invoice and no purchase order calls the
\* extraction once and the comparison never.
C22_LlamadasPorBanderas ==
    pc = "validado" =>
        LET registro == registros[idx]
        IN  /\ ~registro.tiene_factura =>
                  /\ llamadas.extraer = 0
                  /\ llamadas.comparar = 0
                  /\ consultas.ext = NoExt
                  /\ consultas.cmp = NoCmp
                  /\ resultado.datos_factura = VNone
            /\ (registro.tiene_factura /\ ~registro.tiene_oc) =>
                  /\ llamadas.extraer = 1
                  /\ llamadas.comparar = 0
                  /\ consultas.ext # NoExt
                  /\ consultas.cmp = NoCmp

\* A row with an invoice and no purchase order was validated: the
\* extraction was called and answered an object, no comparison was made.
C22_Witness ==
    /\ pc = "validado"
    /\ registros[idx].tiene_factura
    /\ ~registros[idx].tiene_oc
    /\ llamadas.extraer = 1
    /\ llamadas.comparar = 0
    /\ consultas.ext = [falla |-> FALSE, valor |-> VDict(6)]

\* C23 as stated: for a form field that is not empty, phase 2 is
\* attempted only if phase 1 raised, phase 3 only if phase 1 and phase 2
\* raised, also when a phase succeeded with null or with an empty list.
C23_Original ==
    TruthyTxt(peticion.campo) =>
        /\ peticion.fases >= 1
        /\ peticion.fases >= 2 => ~parse_flexible_json(peticion.campo).ok
        /\ peticion.fases >= 3 =>
              ~parse_flexible_json(QuitarEscapes(peticion.campo)).ok

\* C24: a row that was not pending when the running batch read the table
\* (it was inserted afterwards) is left as it is by that batch, pending and
\* with its outcome fields at their defaults; the next read of a batch
\* selects every pending row; and, while batches keep running and the
\* store works, every stored row is eventually processed.
C24_ProcesadoEnLaSiguiente ==
    /\ [][\A i \in 1..Len(registros_webhook) :
            /\ (pc # "idle" /\ i \notin pendientes_leidos) =>
                  /\ registros_webhook'[i] = registros_webhook[i]
                  /\ ~registros_webhook[i].procesado =>
                        registros_webhook[i] =
                            RegistroWebhook(i,
                                registros_webhook[i].fecha_recepcion,
                                registros_webhook[i].factura_base64,
                                registros_webhook[i].ordenes_de_compra)
            /\ (pc = "idle" /\ pc' # "idle"
                   /\ ~registros_webhook[i].procesado) =>
                  \E k \in 1..Len(registros') : registros'[k].id = i]_vars
    /\ \A i \in 1..MaxRecords :
          (Len(registros_webhook) >= i)
              ~> (Len(registros_webhook) >= i /\ registros_webhook[i].procesado)

\* A batch has processed a row it selected while a row inserted after its
\* read waits for the next run.
C24_Witness ==
    /\ pc = "loop"
    /\ \E i \in pendientes_leidos : registros_webhook[i].procesado
    /\ \E i \in 1..Len(registros_webhook) :
          /\ i \notin pendientes_leidos
          /\ ~registros_webhook[i].procesado

\* C25: no guard of the store keeps a pending row from two executions of
\* the batch that overlap. An execution that reads selects every row that
\* is not processed, the rows the other execution has read and not yet
\* written included; the write of an execution puts its outcome in the
\* row whether or not the row is already processed.
C25_SinGuardaDelAlmacen ==
    [][/\ (otro.pc = "idle" /\ otro'.pc # "idle") =>
            \A i \in 1..Len(registros_webhook) :
                ~registros_webhook[i].procesado =>
                    \E k \in 1..Len(otro'.registros) :
                        otro'.registros[k].id = registros_webhook[i].id
       /\ (pc = "idle" /\ pc' # "idle") =>
            \A i \in 1..Len(registros_webhook) :
                ~registros_webhook[i].procesado =>
                    \E k \in 1..Len(registros') :
                        registros'[k].id = registros_webhook[i].id
       /\ (otro.pc = "validado" /\ otro'.pc = "loop") =>
            \A i \in 1..Len(registros_webhook) :
                registros_webhook[i].id = otro.registros[otro.idx].id =>
                    /\ registros_webhook'[i].procesado
                    /\ registros_webhook'[i].resultado_validacion =
                          otro.resultado.resultado_openai
                    /\ registros_webhook'[i].tipo_anomalia =
                          otro.resultado.tipo_anomalia
       /\ (pc = "validado" /\ pc' = "loop") =>
            \A i \in 1..Len(registros_webhook) :
                registros_webhook[i].id = registros[idx].id =>
                    /\ registros_webhook'[i].procesado
                    /\ registros_webhook'[i].resultado_validacion =
                          resultado.resultado_openai
                    /\ registros_webhook'[i].tipo_anomalia =
                          resultado.tipo_anomalia]_vars

\* Both executions selected the same row, both sent it to the
\* collaborators, the first wrote its outcome and the second wrote a
\* different one over it.
C25_Witness ==
    /\ pc = "loop" /\ idx = 2
    /\ otro.pc = "loop" /\ otro.idx = 2
    /\ registros[1].id = otro.registros[1].id
    /\ llamadas.extraer >= 1 /\ llamadas.comparar >= 1
    /\ otro.extraer >= 1 /\ otro.comparar >= 1
    /\ resultado.registro_id = otro.resultado.registro_id
    /\ resultado.resultado_openai # otro.resultado.resultado_openai
    /\ \E i \in 1..Len(registros_webhook) :
          /\ registros_webhook[i].id = registros[1].id
          /\ registros_webhook[i].procesado
          /\ registros_webhook[i].resultado_validacion =
                otro.resultado.resultado_openai
\* C26: a row is in the uploaded report of at most one run, the run that
\* read it pending and processed it. A run reads only rows that are not
\* processed, so when a run fails, or the process stops, after the outcome
\* of a row was written and before the report was uploaded, no later run
\* reports the row.
C26_ReporteALoMasUnaVez ==
    [][\A i \in 1..MaxRecords :
          /\ reportados[i] <= 1
          /\ reportados'[i] # reportados[i] =>
                /\ reportados[i] = 0
                /\ i \in pendientes_leidos
                /\ registros_webhook[i].procesado
          /\ (pc = "idle" /\ pc' # "idle") =>
                \A k \in 1..Len(registros') :
                    ~registros_webhook[registros'[k].id].procesado
          /\ (i <= Len(registros_webhook) /\ registros_webhook[i].procesado
               /\ i \notin pendientes_leidos) =>
                reportados'[i] = reportados[i]]_vars

\* A later run has delivered its report; an earlier run wrote the outcome
\* of a row and ended without a report, and the row is in no report.
C26_Witness ==
    /\ pc = "fin_ok"
    /\ \E i, j \in 1..Len(registros_webhook) :
          /\ registros_webhook[i].procesado
          /\ i \notin pendientes_leidos
          /\ reportados[i] = 0
          /\ j \in pendientes_leidos
          /\ reportados[j] = 1
\* C27: each operation of the store (the read of the pending rows, the
\* update of one row, the insert of one row) is a unit of work of its own:
\* when its body completes it ends committed, when its body fails it ends
\* rolled back, with the store as it was and the exception raised again,
\* and the session is released either way; while an extraction or
\* comparison call is in flight the validator holds no open session.
C27_UnidadDeTrabajo ==
    [][/\ (pc = "idle" /\ pc' # "idle") =>
            /\ registros_webhook' = registros_webhook
            /\ ~llamadas'.sesion.abierta
            /\ llamadas'.sesion.fin = "commit" =>
                  (pc' \in {"loop", "returned"} /\ excepcion' = NoneTxt)
            /\ llamadas'.sesion.fin # "commit" =>
                  /\ llamadas'.sesion.fin = "rollback"
                  /\ llamadas'.sesion.relanza
                  /\ pc' = "raised"
                  /\ excepcion' = EXC_DB
       /\ (pc \in {"validado", "except"} /\ pc' # pc) =>
            /\ ~llamadas'.sesion.abierta
            /\ llamadas'.sesion.fin = "commit" =>
                  /\ pc' = "loop"
                  /\ registros_webhook'[registros[idx].id].procesado
                  /\ llamadas'.escrituras = llamadas.escrituras + 1
            /\ llamadas'.sesion.fin # "commit" =>
                  /\ llamadas'.sesion.fin = "rollback"
                  /\ llamadas'.sesion.relanza
                  /\ registros_webhook' = registros_webhook
                  /\ pc' = IF pc = "validado" THEN "except" ELSE "raised"
                  /\ excepcion' = EXC_DB
       /\ (Len(registros_webhook') > Len(registros_webhook)) =>
            /\ peticion'.sesion.fin = "commit"
            /\ respuesta'.status = "success"
            /\ SubSeq(registros_webhook', 1, Len(registros_webhook)) =
                  registros_webhook
       /\ ~peticion'.sesion.abierta
       /\ (peticion'.sesion.fin = "commit") = (respuesta'.status = "success")
       /\ (peticion'.sesion.fin = "rollback") =>
            /\ peticion'.sesion.relanza
            /\ respuesta'.status = "error500"
            /\ respuesta'.detail = EXC_DB
            /\ (<<peticion', respuesta'>> # <<peticion, respuesta>>) =>
                  registros_webhook' = registros_webhook
       /\ (pc' \in {"loop", "validado"}) => llamadas'.abiertas = 0]_vars

\* A row went to the collaborators with no session open; the unit of work
\* that wrote its outcome was rolled back, released and raised again, the
\* row as it was; the last request ended in a rolled back insert.
C27_Witness ==
    /\ pc = "except"
    /\ llamadas.extraer + llamadas.comparar >= 1
    /\ llamadas.sesion = get_session(TRUE)
    /\ llamadas.abiertas = 0
    /\ ~registros_webhook[registros[idx].id].procesado
    /\ peticion.sesion = get_session(TRUE)
    /\ respuesta.status = "error500"
\* C28: the write of an outcome changes, in the row it is for, nothing but
\* procesado, es_anomalia, tipo_anomalia, resultado_validacion,
\* datos_factura_json and fecha_procesamiento; id, fecha_recepcion,
\* ordenes_de_compra, factura_base64, tiene_factura and tiene_oc of a row
\* stay as they were when it was inserted, and no step changes a row
\* other than the one being written.
C28_SoloCamposDeResultado ==
    [][/\ Len(registros_webhook') >= Len(registros_webhook)
       /\ \A i \in 1..Len(registros_webhook) :
            /\ registros_webhook'[i].id = registros_webhook[i].id
            /\ registros_webhook'[i].fecha_recepcion =
                  registros_webhook[i].fecha_recepcion
            /\ registros_webhook'[i].ordenes_de_compra =
                  registros_webhook[i].ordenes_de_compra
            /\ registros_webhook'[i].factura_base64 =
                  registros_webhook[i].factura_base64
            /\ registros_webhook'[i].tiene_factura =
                  registros_webhook[i].tiene_factura
            /\ registros_webhook'[i].tiene_oc = registros_webhook[i].tiene_oc
            /\ registros_webhook'[i] # registros_webhook[i] =>
                  /\ pc \in {"validado", "except"}
                  /\ registros_webhook[i].id = registros[idx].id
                  /\ registros_webhook'[i] =
                        [registros_webhook[i] EXCEPT
                            !.procesado = TRUE,
                            !.es_anomalia = resultado.es_anomalia,
                            !.tipo_anomalia = resultado.tipo_anomalia,
                            !.resultado_validacion =
                                resultado.resultado_openai,
                            !.datos_factura_json = resultado.datos_factura,
                            !.fecha_procesamiento = reloj]]_vars

\* The outcome of one row was written while another row, inserted after
\* the batch read the table, is as the endpoint stored it.
C28_Witness ==
    /\ pc = "loop"
    /\ idx = 2
    /\ Len(registros) = 1
    /\ Len(registros_webhook) = 2
    /\ registros_webhook[1].procesado
    /\ registros_webhook[1].fecha_procesamiento = reloj
    /\ registros_webhook[1].resultado_validacion = resultado.resultado_openai
    /\ ~registros_webhook[2].procesado
    /\ registros_webhook[2].resultado_validacion = NoneTxt
    /\ registros_webhook[2].fecha_procesamiento = NULL_TS
\* C29: in every outcome the validator produces, from the classification
\* or from the except block of the batch, and so in every processed row,
\* es_anomalia is true exactly when tipo_anomalia is present, and a
\* tipo_anomalia that is present is one of the five kinds of TipoAnomalia.
C29_AnomaliaConTipo ==
    /\ \A k \in 1..Len(resultados) :
          /\ resultados[k].es_anomalia = (resultados[k].tipo_anomalia # None)
          /\ resultados[k].tipo_anomalia \in
                {None, SIN_OC, SIN_FACTURA, SIN_OC_NI_FACTURA,
                 ERROR_PROCESAMIENTO, DISCREPANCIAS}
    /\ \A i \in 1..Len(registros_webhook) :
          registros_webhook[i].procesado =>
              /\ registros_webhook[i].es_anomalia =
                    (registros_webhook[i].tipo_anomalia # None)
              /\ registros_webhook[i].tipo_anomalia \in
                    {None, SIN_OC, SIN_FACTURA, SIN_OC_NI_FACTURA,
                     ERROR_PROCESAMIENTO, DISCREPANCIAS}

\* A row was validated without anomaly, its write failed, and the error
\* outcome of the except block was appended and written.
C29_Witness ==
    /\ pc = "loop"
    /\ idx = 2
    /\ Len(resultados) = 2
    /\ ~resultados[1].es_anomalia
    /\ resultados[1].tipo_anomalia = None
    /\ resultados[2].es_anomalia
    /\ resultados[2].tipo_anomalia = ERROR_PROCESAMIENTO
    /\ registros_webhook[1].procesado
    /\ registros_webhook[1].es_anomalia
    /\ registros_webhook[1].tipo_anomalia = ERROR_PROCESAMIENTO
\* C30: every row the endpoint stored has tiene_factura or tiene_oc true,
\* tiene_factura true exactly when factura_base64 is present and tiene_oc
\* true exactly when ordenes_de_compra is present and not empty; so no row
\* that came through the endpoint is classified sin_oc_ni_factura.
C30_NuncaSinAmbos ==
    /\ \A i \in 1..Len(registros_webhook) :
          /\ registros_webhook[i].tiene_factura \/ registros_webhook[i].tiene_oc
          /\ registros_webhook[i].tiene_factura =
                (registros_webhook[i].factura_base64 # None)
          /\ registros_webhook[i].tiene_oc =
                (registros_webhook[i].ordenes_de_compra # <<>>)
          /\ registros_webhook[i].tipo_anomalia # SIN_OC_NI_FACTURA
    /\ \A k \in 1..Len(resultados) :
          resultados[k].tipo_anomalia # SIN_OC_NI_FACTURA

\* A row stored with purchase orders only and a row stored with an invoice
\* only were both classified, as sin_factura and sin_oc.
C30_Witness ==
    /\ Len(registros_webhook) = 2
    /\ \E i, j \in 1..2 :
          /\ registros_webhook[i].procesado
          /\ ~registros_webhook[i].tiene_factura
          /\ registros_webhook[i].tiene_oc
          /\ registros_webhook[i].tipo_anomalia = SIN_FACTURA
          /\ registros_webhook[j].procesado
          /\ registros_webhook[j].tiene_factura
          /\ ~registros_webhook[j].tiene_oc
          /\ registros_webhook[j].tipo_anomalia = SIN_OC
====
